---- MODULE Spec2Model ----
(***************************************************************************)
(* Model of the intent resolution pipeline of intentjs-framework:          *)
(* NaturalLanguageUnderstanding (packages/core/src/nlu/index.ts), its      *)
(* input normaliser (utils/inputNormalizer.ts) and its bounded history,    *)
(* the default prompt (prompt/templates.ts), the MockProvider              *)
(* (llm/providers/mock.ts), and the router (router/index.ts) with the      *)
(* executor registry (packages/actions/src/executors/index.ts).            *)
(*                                                                         *)
(* Text is a sequence of atoms: an atom is a word, a punctuation mark or   *)
(* one whitespace character.  Confidence values are in hundredths (1.0 is  *)
(* ConfOne).  Optional fields of a JS object are fields a record has or    *)
(* has not (tested with DOMAIN).                                           *)
(***************************************************************************)
EXTENDS Integers, Sequences, FiniteSets, TLC

(***************************************************************************)
(* Bounds of the model.                                                    *)
(***************************************************************************)
MaxRetriesBound == 1     \* maxRetries ranges over 0..MaxRetriesBound
MaxHistoryLimit == 2     \* historyLimit ranges over 0..MaxHistoryLimit
MaxPushed == 2           \* calls start while fewer items were pushed since the last clear
MaxInFlight == 2         \* slots for calls of parseIntent
MaxMiddleware == 2       \* the router is given at most MaxMiddleware middleware functions
MaxTextWords == 3        \* a text given to the stub provider has at most MaxTextWords words
MaxRegistrations == 2    \* the application's recorded calls of registerExecutor
MaxChain == 3            \* executeChain is given at most MaxChain intents

(***************************************************************************)
(* Program constants.                                                      *)
(***************************************************************************)
ConfZero == 0
ConfOne == 100
DefaultMinConfidence == 60

Min(a, b) == IF a < b THEN a ELSE b
Max(a, b) == IF a > b THEN a ELSE b

(***************************************************************************)
(* Text helpers.                                                           *)
(***************************************************************************)
IsSpace(a) == a \in {" ", "\t", "\n"}

\* The /i flag of the regular expressions, on the words the inputs use.
Lower(a) ==
    CASE a = "Password" -> "password"
      [] a = "Show" -> "show"
      [] a = "Please" -> "please"
      [] a = "Credit" -> "credit"
      [] a = "Open" -> "open"
      [] OTHER -> a

LowerAll(s) == [i \in 1..Len(s) |-> Lower(s[i])]

Drop(s, n) == SubSeq(s, n + 1, Len(s))

\* p occurs in s as a run of consecutive atoms, compared case-insensitively
Occurs(p, s) ==
    \E i \in 1..Len(s) :
        /\ i + Len(p) - 1 <= Len(s)
        /\ LowerAll(SubSeq(s, i, i + Len(p) - 1)) = p

RECURSIVE TrimLeft(_)
TrimLeft(s) == IF s # <<>> /\ IsSpace(Head(s)) THEN TrimLeft(Tail(s)) ELSE s

RECURSIVE TrimRight(_)
TrimRight(s) ==
    IF s # <<>> /\ IsSpace(s[Len(s)]) THEN TrimRight(SubSeq(s, 1, Len(s) - 1)) ELSE s

\* String.prototype.trim
Trim(s) == TrimRight(TrimLeft(s))

\* replace(/\s+/g, ' ')
RECURSIVE CollapseSpaces(_)
CollapseSpaces(s) ==
    IF s = <<>> THEN <<>>
    ELSE IF IsSpace(Head(s))
         THEN <<" ">> \o CollapseSpaces(TrimLeft(s))
         ELSE <<Head(s)>> \o CollapseSpaces(Tail(s))

\* the alternatives of the leading-phrase pattern, in the pattern's order
PolitePhrases ==
    << <<"please">>,
       <<"can", " ", "you">>,
       <<"could", " ", "you">>,
       <<"i", " ", "want", " ", "to">>,
       <<"i", " ", "would", " ", "like", " ", "to">> >>

\* s starts with phrase p followed by whitespace (^p\s+ with the i flag)
StartsWithPhrase(p, s) ==
    /\ Len(s) > Len(p)
    /\ LowerAll(SubSeq(s, 1, Len(p))) = p
    /\ IsSpace(s[Len(p) + 1])

\* replace(/^(please|can you|...)\s+/i, '')
StripPolite(s) ==
    IF \E k \in 1..Len(PolitePhrases) : StartsWithPhrase(PolitePhrases[k], s)
    THEN LET k == CHOOSE j \in 1..Len(PolitePhrases) :
                     /\ StartsWithPhrase(PolitePhrases[j], s)
                     /\ \A h \in 1..(j - 1) : ~StartsWithPhrase(PolitePhrases[h], s)
         IN  TrimLeft(Drop(s, Len(PolitePhrases[k])))
    ELSE s

\* actionMappings, in insertion order: <<pattern, replacement>>
ActionMappings ==
    << << <<"show", " ", "me">>, <<"show">> >>,
       << <<"go", " ", "to">>, <<"navigate", " ", "to">> >>,
       << <<"take", " ", "me", " ", "to">>, <<"navigate", " ", "to">> >>,
       << <<"open">>, <<"navigate", " ", "to">> >>,
       << <<"navigate">>, <<"navigate", " ", "to">> >>,
       << <<"bring", " ", "up">>, <<"show">> >>,
       << <<"display">>, <<"show">> >>,
       << <<"find">>, <<"search", " ", "for">> >>,
       << <<"look", " ", "for">>, <<"search", " ", "for">> >>,
       << <<"search">>, <<"search", " ", "for">> >>,
       << <<"filter", " ", "by">>, <<"filter">> >>,
       << <<"sort", " ", "by">>, <<"sort">> >>,
       << <<"order", " ", "by">>, <<"sort">> >> >>

\* the loop over actionMappings: the first pattern that matches is applied, then break
ApplyActionMapping(s) ==
    IF \E k \in 1..Len(ActionMappings) : StartsWithPhrase(ActionMappings[k][1], s)
    THEN LET k == CHOOSE j \in 1..Len(ActionMappings) :
                     /\ StartsWithPhrase(ActionMappings[j][1], s)
                     /\ \A h \in 1..(j - 1) : ~StartsWithPhrase(ActionMappings[h][1], s)
         IN  ActionMappings[k][2] \o <<" ">>
                 \o TrimLeft(Drop(s, Len(ActionMappings[k][1])))
    ELSE s

\* typoCorrections: \btypo\b (flags gi) replaced by the correction
CorrectTypo(a) ==
    CASE Lower(a) = "dasboard" -> "dashboard"
      [] Lower(a) = "dashbord" -> "dashboard"
      [] Lower(a) = "setting" -> "settings"
      [] Lower(a) = "setings" -> "settings"
      [] Lower(a) = "report" -> "reports"
      [] Lower(a) = "statistic" -> "statistics"
      [] Lower(a) = "analytic" -> "analytics"
      [] Lower(a) = "notifcation" -> "notification"
      [] Lower(a) = "acount" -> "account"
      [] Lower(a) = "proflie" -> "profile"
      [] OTHER -> a

normalizeInput(input) ==
    IF input = <<>> THEN <<>>
    ELSE LET collapsed == CollapseSpaces(Trim(input))
             mapped == ApplyActionMapping(StripPolite(collapsed))
         IN  [i \in 1..Len(mapped) |-> CorrectTypo(mapped[i])]

\* the alternatives of /\b(password|credit card|social security|ssn|private key)\b/i
SensitivePhrases ==
    { <<"password">>, <<"credit", " ", "card">>, <<"social", " ", "security">>,
      <<"ssn">>, <<"private", " ", "key">> }

hasSensitiveContent(input) == \E p \in SensitivePhrases : Occurs(p, input)


\* mutant: slice(0, n), the oldest are kept
FirstN(s, n) == IF Len(s) <= n THEN s ELSE SubSeq(s, 1, n)

\* slice(-n) for n > 0
LastN(s, n) == IF Len(s) <= n THEN s ELSE SubSeq(s, Len(s) - n + 1, Len(s))

(***************************************************************************)
(* Strings, character by character, for the prompt and the stub provider.  *)
(***************************************************************************)
CharAt(s, i) == SubSeq(s, i, i)

UpperChars ==
    { "A", "B", "C", "D", "E", "F", "G", "H", "I", "J", "K", "L", "M",
      "N", "O", "P", "Q", "R", "S", "T", "U", "V", "W", "X", "Y", "Z" }

\* the i flag on one character
LowerChar(ch) ==
    IF ch \notin UpperChars THEN ch
    ELSE
    CASE ch = "A" -> "a"
      [] ch = "B" -> "b"
      [] ch = "C" -> "c"
      [] ch = "D" -> "d"
      [] ch = "E" -> "e"
      [] ch = "F" -> "f"
      [] ch = "G" -> "g"
      [] ch = "H" -> "h"
      [] ch = "I" -> "i"
      [] ch = "J" -> "j"
      [] ch = "K" -> "k"
      [] ch = "L" -> "l"
      [] ch = "M" -> "m"
      [] ch = "N" -> "n"
      [] ch = "O" -> "o"
      [] ch = "P" -> "p"
      [] ch = "Q" -> "q"
      [] ch = "R" -> "r"
      [] ch = "S" -> "s"
      [] ch = "T" -> "t"
      [] ch = "U" -> "u"
      [] ch = "V" -> "v"
      [] ch = "W" -> "w"
      [] ch = "X" -> "x"
      [] ch = "Y" -> "y"
      [] ch = "Z" -> "z"

\* the atoms of an input as one string
RECURSIVE JoinAtoms(_)
JoinAtoms(s) == IF s = <<>> THEN "" ELSE Head(s) \o JoinAtoms(Tail(s))

\* Array.prototype.join(sep)
RECURSIVE JoinWith(_, _)
JoinWith(list, sep) ==
    IF list = <<>> THEN ""
    ELSE IF Len(list) = 1 THEN list[1]
    ELSE list[1] \o sep \o JoinWith(Tail(list), sep)

\* lit, a lower-case literal of a pattern with the i flag, matches text at i
MatchAt(text, i, lit) ==
    /\ i + Len(lit) - 1 <= Len(text)
    /\ \A k \in 1..Len(lit) : LowerChar(CharAt(text, i + k - 1)) = CharAt(lit, k)

\* .* does not cross a line end
NoNewline(text, a, b) == \A k \in a..b : CharAt(text, k) # "\n"

\* the literals lits match text in this order from position from on, .* between them
RECURSIVE MatchesRest(_, _, _)
MatchesRest(text, lits, from) ==
    IF lits = <<>> THEN TRUE
    ELSE \E i \in from..Len(text) :
            /\ MatchAt(text, i, Head(lits))
            /\ NoNewline(text, from, i - 1)
            /\ MatchesRest(text, Tail(lits), i + Len(Head(lits)))

\* RegExp.prototype.test for a pattern given as its alternatives, each a
\* list of literals with .* between them
RegExpTest(pattern, text) ==
    \E n \in 1..Len(pattern) :
        \E i \in 1..Len(text) :
            /\ MatchAt(text, i, pattern[n][1])
            /\ MatchesRest(text, Tail(pattern[n]), i + Len(pattern[n][1]))

\* one character inside a JSON string
EscapeChar(ch) ==
    CASE ch = "\"" -> "\\\""
      [] ch = "\\" -> "\\\\"
      [] ch = "\n" -> "\\n"
      [] ch = "\t" -> "\\t"
      [] OTHER -> ch

RECURSIVE EscapeAll(_)
EscapeAll(s) ==
    IF Len(s) = 0 THEN ""
    ELSE IF Len(s) = 1 THEN EscapeChar(s)
    ELSE LET h == Len(s) \div 2
         IN  EscapeAll(SubSeq(s, 1, h)) \o EscapeAll(SubSeq(s, h + 1, Len(s)))

\* JSON.stringify of a string
JSONQuote(s) == "\"" \o EscapeAll(s) \o "\""

UnescapeChar(ch) ==
    CASE ch = "n" -> "\n"
      [] ch = "t" -> "\t"
      [] OTHER -> ch

RECURSIVE UnescapeFrom(_, _)
UnescapeFrom(s, i) ==
    IF i > Len(s) THEN ""
    ELSE IF CharAt(s, i) = "\\" /\ i < Len(s)
    THEN UnescapeChar(CharAt(s, i + 1)) \o UnescapeFrom(s, i + 2)
    ELSE CharAt(s, i) \o UnescapeFrom(s, i + 1)

\* JSON.parse of a string literal: the text between its quotes, unescaped
JSONUnquote(q) == UnescapeFrom(SubSeq(q, 2, Len(q) - 1), 1)

\* a number below 100 in two digits
TwoDigits(n) == IF n < 10 THEN "0" \o ToString(n) ELSE ToString(n)

\* JSON.stringify of a number given in hundredths: 95 is 0.95, 40 is 0.4,
\* 100 is 1
NumberText(h) ==
    LET a == IF h < 0 THEN 0 - h ELSE h
        sign == IF h < 0 THEN "-" ELSE ""
        whole == ToString(a \div 100)
        frac == a % 100
    IN  IF frac = 0 THEN sign \o whole
        ELSE IF frac % 10 = 0 THEN sign \o whole \o "." \o ToString(frac \div 10)
        ELSE sign \o whole \o "." \o TwoDigits(frac)

\* the members "key":"value" of an object of strings, in the order keys
RECURSIVE MembersText(_, _, _)
MembersText(obj, keys, colon) ==
    IF keys = <<>> THEN <<>>
    ELSE <<JSONQuote(Head(keys)) \o colon \o JSONQuote(obj[Head(keys)])>>
         \o MembersText(obj, Tail(keys), colon)

\* the keys of an object as a list.  The objects of strings of the model have
\* at most one key, so the order of insertion is not in question.
RECURSIVE KeysOf(_)
KeysOf(keys) ==
    IF keys = {} THEN <<>>
    ELSE LET k == CHOOSE x \in keys : TRUE
         IN  <<k>> \o KeysOf(keys \ {k})

\* JSON.stringify(obj) of an object of strings
ObjectText(obj) ==
    "{" \o JoinWith(MembersText(obj, KeysOf(DOMAIN obj), ":"), ",") \o "}"

\* JSON.stringify(obj, null, 2) of an object of strings
ObjectTextIndented(obj) ==
    IF DOMAIN obj = {} THEN "{}"
    ELSE "{\n  " \o JoinWith(MembersText(obj, KeysOf(DOMAIN obj), ": "), ",\n  ") \o "\n}"

\* JSON.stringify(intent): the members in the order JSON.parse created them,
\* which in every text of the model is action, target, params, confidence
JSONStringifyIntent(intent) ==
    LET member(k, text) == IF k \in DOMAIN intent THEN <<"\"" \o k \o "\":" \o text>> ELSE <<>>
    IN  "{"
        \o JoinWith(
             member("action", IF "action" \in DOMAIN intent THEN JSONQuote(intent.action) ELSE "")
             \o member("target", IF "target" \in DOMAIN intent THEN JSONQuote(intent.target) ELSE "")
             \o member("params", IF "params" \in DOMAIN intent THEN ObjectText(intent.params) ELSE "")
             \o member("confidence",
                       IF "confidence" \in DOMAIN intent THEN NumberText(intent.confidence) ELSE ""),
             ",")
        \o "}"

(***************************************************************************)
(* The language-model capability (LLMProvider.generate) as seen by the     *)
(* loop: it resolves to {content} or {content: "", error}, or it rejects.  *)
(***************************************************************************)
ModelTexts ==
    { "not json",
      "null",
      "{\"target\":\"sales\"}",
      "{\"action\":\"\",\"confidence\":0.9}",
      "{\"action\":\"unknown\",\"confidence\":0.4}",
      "{\"action\":\"sort\",\"confidence\":-0.2}",
      "{\"action\":\"export\",\"target\":\"current\",\"confidence\":0.6}",
      "{\"action\":\"navigate\",\"confidence\":1.5}",
      "{\"action\":\"greet\"}" }

LLMResponses ==
    [content : ModelTexts] \cup {[content |-> "", error |-> "rate limited"]}

\* a text of the form {"action":"unknown","params":{"rawInput":<string>},"confidence":0.4}
IsUnknownIntentText(text) ==
    LET prefix == "{\"action\":\"unknown\",\"params\":{\"rawInput\":\""
        suffix == "\"},\"confidence\":0.4}"
    IN  /\ Len(text) >= Len(prefix) + Len(suffix)
        /\ SubSeq(text, 1, Len(prefix)) = prefix
        /\ SubSeq(text, Len(text) - Len(suffix) + 1, Len(text)) = suffix

\* the string under rawInput in such a text
UnknownIntentRawInput(text) ==
    LET prefix == "{\"action\":\"unknown\",\"params\":{\"rawInput\":"
        suffix == "},\"confidence\":0.4}"
    IN  JSONUnquote(SubSeq(text, Len(prefix) + 1, Len(text) - Len(suffix)))

\* JSON.parse on the texts above and on the texts of the stub provider: it
\* throws a SyntaxError or returns the value
JSONParse(text) ==
    CASE text = "null" ->
            [threw |-> FALSE, value |-> [jsnull |-> TRUE]]
      [] text = "{\"target\":\"sales\"}" ->
            [threw |-> FALSE, value |-> [target |-> "sales"]]
      [] text = "{\"action\":\"\",\"confidence\":0.9}" ->
            [threw |-> FALSE, value |-> [action |-> "", confidence |-> 90]]
      [] text = "{\"action\":\"unknown\",\"confidence\":0.4}" ->
            [threw |-> FALSE, value |-> [action |-> "unknown", confidence |-> 40]]
      [] text = "{\"action\":\"sort\",\"confidence\":-0.2}" ->
            [threw |-> FALSE, value |-> [action |-> "sort", confidence |-> -20]]
      [] text = "{\"action\":\"export\",\"target\":\"current\",\"confidence\":0.6}" ->
            [threw |-> FALSE, value |-> [action |-> "export", target |-> "current", confidence |-> 60]]
      [] text = "{\"action\":\"navigate\",\"confidence\":1.5}" ->
            [threw |-> FALSE, value |-> [action |-> "navigate", confidence |-> 150]]
      [] text = "{\"action\":\"greet\"}" ->
            [threw |-> FALSE, value |-> [action |-> "greet"]]
      [] text = "{\"action\":\"filter\",\"target\":\"sales\",\"params\":{\"dateRange\":\"last_month\"},\"confidence\":0.95}" ->
            [threw |-> FALSE,
             value |-> [action |-> "filter", target |-> "sales",
                        params |-> [dateRange |-> "last_month"], confidence |-> 95]]
      [] text = "{\"action\":\"navigate\",\"target\":\"dashboard\",\"confidence\":0.95}" ->
            [threw |-> FALSE,
             value |-> [action |-> "navigate", target |-> "dashboard", confidence |-> 95]]
      [] text = "{\"action\":\"navigate\",\"target\":\"settings\",\"confidence\":0.95}" ->
            [threw |-> FALSE,
             value |-> [action |-> "navigate", target |-> "settings", confidence |-> 95]]
      [] text = "{\"action\":\"navigate\",\"target\":\"profile\",\"confidence\":0.95}" ->
            [threw |-> FALSE,
             value |-> [action |-> "navigate", target |-> "profile", confidence |-> 95]]
      [] text = "{\"action\":\"export\",\"target\":\"current\",\"params\":{\"format\":\"pdf\"},\"confidence\":0.9}" ->
            [threw |-> FALSE,
             value |-> [action |-> "export", target |-> "current",
                        params |-> [format |-> "pdf"], confidence |-> 90]]
      [] text = "{\"action\":\"export\",\"target\":\"current\",\"params\":{\"format\":\"csv\"},\"confidence\":0.9}" ->
            [threw |-> FALSE,
             value |-> [action |-> "export", target |-> "current",
                        params |-> [format |-> "csv"], confidence |-> 90]]
      [] text = "{\"action\":\"filter\",\"target\":\"data\",\"params\":{\"region\":\"europe\"},\"confidence\":0.92}" ->
            [threw |-> FALSE,
             value |-> [action |-> "filter", target |-> "data",
                        params |-> [region |-> "europe"], confidence |-> 92]]
      [] text = "{\"action\":\"sort\",\"target\":\"data\",\"params\":{\"field\":\"date\"},\"confidence\":0.88}" ->
            [threw |-> FALSE,
             value |-> [action |-> "sort", target |-> "data",
                        params |-> [field |-> "date"], confidence |-> 88]]
      [] text = "{\"action\":\"greet\",\"confidence\":0.8}" ->
            [threw |-> FALSE, value |-> [action |-> "greet", confidence |-> 80]]
      [] IsUnknownIntentText(text) ->
            [threw |-> FALSE,
             value |-> [action |-> "unknown",
                        params |-> [rawInput |-> UnknownIntentRawInput(text)],
                        confidence |-> 40]]
      [] OTHER ->
            [threw |-> TRUE, message |-> "Unexpected token"]

\* Date.now() differences and stamps are not compared by the program
Elapsed == "ms"
Timestamp == "now"

\* the value of a variable that holds no result (null)
Null == [null |-> TRUE]


(***************************************************************************)
(* The executors and their registry.                                       *)
(***************************************************************************)
\* what is not there: undefined
Undefined == [undefined |-> TRUE]

\* the executors registered when the module is loaded
DefaultExecutors ==
    [ sayHello |-> "greetExecutor",
      goToPage |-> "navigateExecutor",
      navigate |-> "navigateExecutor",
      filter |-> "filterExecutor",
      sort |-> "sortExecutor",
      export |-> "exportExecutor",
      search |-> "searchExecutor",
      submit |-> "submitExecutor",
      greet |-> "greetExecutor",
      open |-> "navigateExecutor",
      show |-> "filterExecutor" ]

\* what an object literal inherits: members of Object.prototype, and the
\* prototype itself under "__proto__" (an object, not a function)
ObjectPrototype ==
    [ key \in {"toString", "__proto__"} |->
        IF key = "toString" THEN "Object.prototype.toString" ELSE "Object.prototype" ]

\* the lookup of own properties only, as a registry without inherited members does it
GetOwn(obj, key) == IF key \in DOMAIN obj THEN {obj[key]} ELSE {}

\* obj[key] for an object literal obj: own properties first, then inherited
\* ones; the empty set stands for undefined, {v} for the value v
Get(obj, key) ==
    IF key \in DOMAIN obj THEN {obj[key]}
    ELSE IF key \in DOMAIN ObjectPrototype THEN {ObjectPrototype[key]}
    ELSE {}

IsCallable(fn) == fn # "Object.prototype"

\* a || b on strings that may be absent
OrElse(rec, field, default) ==
    IF field \in DOMAIN rec /\ rec[field] # "" THEN rec[field] ELSE default

Params(intent) == IF "params" \in DOMAIN intent THEN intent.params ELSE << >>

Returns1(v) == { [returns |-> v] }

\* What a call fn(intent, context) can do: return a value or throw an Error.
\* An executor registered by the application may do either.
ExecutorOutcomes(fn, intent, context) ==
    CASE fn = "navigateExecutor" ->
            Returns1([ destination |->
                          OrElse(intent, "target", OrElse(Params(intent), "page", "home")),
                       success |-> TRUE ])
      [] fn = "filterExecutor" ->
            Returns1([ target |-> OrElse(intent, "target", "data"),
                       filters |-> IF "params" \in DOMAIN intent
                                   THEN intent.params ELSE Undefined,
                       success |-> TRUE ])
      [] fn = "sortExecutor" ->
            Returns1([ target |-> OrElse(intent, "target", "data"),
                       sortField |-> OrElse(Params(intent), "field", "default"),
                       sortDirection |-> OrElse(Params(intent), "direction", "asc"),
                       success |-> TRUE ])
      [] fn = "exportExecutor" ->
            Returns1([ target |-> OrElse(intent, "target", "current"),
                       format |-> OrElse(Params(intent), "format", "pdf"),
                       timestamp |-> Timestamp,
                       success |-> TRUE ])
      [] fn = "searchExecutor" ->
            LET query == OrElse(Params(intent), "query", OrElse(Params(intent), "term", ""))
            IN  Returns1([ query |-> query,
                           success |-> query # "",
                           message |-> IF query # "" THEN "Search initiated"
                                       ELSE "No search query provided" ])
      [] fn = "submitExecutor" ->
            Returns1([ form |-> OrElse(intent, "target", "form"),
                       data |-> IF "params" \in DOMAIN intent
                                THEN intent.params ELSE Undefined,
                       timestamp |-> Timestamp,
                       success |-> TRUE ])
      [] fn = "greetExecutor" ->
            Returns1(<< "Hello, ", OrElse(Params(intent), "name", "world"), "!" >>)
      [] fn = "Object.prototype.toString" ->
            Returns1(<< "[object Undefined]" >>)
      [] fn = "otherExecutor" ->
            Returns1(<< "other data" >>)
      [] fn = "customExecutor" ->
            { [returns |-> << "custom data" >>],
              [throws |-> [message |-> "boom"]],
              [throws |-> [message |-> ""]] }

\* defaultOptions.defaultErrorMessage
DefaultErrorMessage == "Action execution failed"

(***************************************************************************)
(* The middleware the router is given.                                     *)
(***************************************************************************)
\* createValidationMiddleware(validActions): null unless the action is listed
ValidActions == {"navigate", "greet"}

\* What a call of a middleware function can do with the current intent:
\*   "logging"    createLoggingMiddleware: the intent as it is
\*   "validation" createValidationMiddleware(ValidActions)
\*   "defaults"   createDefaultsMiddleware({target: "dashboard"})
\*   "transform"  createTransformMiddleware(i => ({...i, action: "dance"}))
\*   "reject"     a function that returns null
\*   "throws"     a function that throws an Error
MiddlewareKinds ==
    {"logging", "validation", "defaults", "transform", "reject", "throws"}

\* reading a property of null throws a TypeError
NullTypeError == [message |-> "Cannot read properties of null"]

MiddlewareOutcome(kind, intent) ==
    IF intent = Null /\ kind \in {"validation", "defaults"}
    THEN [throws |-> NullTypeError]
    ELSE IF intent = Null /\ kind = "transform"
    THEN [returns |-> [action |-> "dance"]]
    ELSE
    CASE kind = "logging" -> [returns |-> intent]
      [] kind = "validation" ->
            IF intent.action \in ValidActions
            THEN [returns |-> intent] ELSE [returns |-> Null]
      [] kind = "defaults" ->
            [returns |->
                [f \in DOMAIN intent \cup {"target", "params"} |->
                    CASE f = "target" -> OrElse(intent, "target", "dashboard")
                      [] f = "params" -> Params(intent)
                      [] OTHER -> intent[f]]]
      [] kind = "transform" ->
            [returns |-> [f \in DOMAIN intent |->
                             IF f = "action" THEN "dance" ELSE intent[f]]]
      [] kind = "reject" -> [returns |-> Null]
      [] kind = "throws" -> [throws |-> [message |-> "middleware failed"]]

(***************************************************************************)
(* createDefaultIntentPrompt.                                              *)
(***************************************************************************)
\* the template up to the input
PromptHead ==
    "\n"
    \o "You are an intent parser for a JavaScript application. Your task is to convert natural language inputs from users \n"
    \o "into structured intent objects. The intent should be returned as valid JSON with the following structure:\n"
    \o "\n"
    \o "{\n"
    \o "  \"action\": string,               // The primary action the user wants to perform\n"
    \o "  \"target\": string,               // Optional: What the action applies to\n"
    \o "  \"params\": object,               // Optional: Any parameters needed\n"
    \o "  \"confidence\": number            // Optional: Confidence score between 0 and 1\n"
    \o "}\n"
    \o "\n"
    \o "User input: \""

\* the template after the input
PromptAfterInput ==
    "\"\n"

\* the closing instruction, appended to every prompt
PromptTail ==
    "\n"
    \o "Return ONLY the JSON intent object and nothing else. Do not include explanations or additional text.\n"

\* an object without properties
EmptyObject == [f \in {} |-> f]

\* the section on the context: four lines, of which the first names the page
\* or 'unknown' and each of the others is empty if its field is not there
ContextSection(context) ==
    "\n"
    \o "Current context:\n"
    \o "- Current page: "
    \o ( IF "page" \in DOMAIN context /\ context.page # "" THEN context.page ELSE "unknown" )
    \o "\n"
    \o ( IF "availableActions" \in DOMAIN context
         THEN "- Available actions: " \o JoinWith(context.availableActions, ", ")
         ELSE "" ) \o "\n"
    \o ( IF "availableTargets" \in DOMAIN context
         THEN "- Available targets: " \o JoinWith(context.availableTargets, ", ")
         ELSE "" ) \o "\n"
    \o ( IF "appState" \in DOMAIN context
         THEN "- App state: " \o ObjectTextIndented(context.appState)
         ELSE "" ) \o "\n"

\* the defaults of the destructuring of the prompt options
DefaultIncludeContext == TRUE
DefaultIncludeHistory == FALSE
DefaultPromptHistoryLimit == 3

\* { field = default } = rec: the default where the field is undefined
OrDefault(rec, field, default) == IF field \in DOMAIN rec THEN rec[field] ELSE default

includeContext(opts) == OrDefault(opts, "includeContext", DefaultIncludeContext)

includeHistory(opts) == OrDefault(opts, "includeHistory", DefaultIncludeHistory)

historyLimit(opts) == OrDefault(opts, "historyLimit", DefaultPromptHistoryLimit)

\* Array.prototype.slice(-n) for n >= 0: the last n, and for n = 0, where -0
\* is 0, the whole list
SliceFromEnd(s, n) == IF n = 0 THEN s ELSE LastN(s, n)

\* history.slice(-historyLimit)
limitedHistory(h, opts) == SliceFromEnd(h, historyLimit(opts))

\* one line of the section on the history
HistoryLine(item) ==
    "- Input: \"" \o JoinAtoms(item.input) \o "\" → Intent: " \o JSONStringifyIntent(item.intent)

RECURSIVE HistoryLines(_)
HistoryLines(items) ==
    IF items = <<>> THEN <<>> ELSE <<HistoryLine(Head(items))>> \o HistoryLines(Tail(items))

\* the section on the history
HistorySection(items) ==
    "\n"
    \o "Recent history:\n"
    \o JoinWith(HistoryLines(items), "\n") \o "\n"

\* createDefaultIntentPrompt(input, context, history, options).  An argument
\* that may be undefined is the set of its values: {} or {value}.
createDefaultIntentPrompt(input, context, hist, opts) ==
    PromptHead \o input \o PromptAfterInput
    \o ( IF includeContext(opts) /\ context # {}
         THEN ContextSection(CHOOSE x \in context : TRUE)
         ELSE "" )
    \o ( IF includeHistory(opts) /\ hist # {} /\ hist # {<<>>}
         THEN HistorySection(limitedHistory(CHOOSE h \in hist : TRUE, opts))
         ELSE "" )
    \o PromptTail

(***************************************************************************)
(* MockProvider: the deterministic stub of the language-model capability.  *)
(***************************************************************************)
\* patternResponses: <<pattern, response>> in the order of the list
patternResponses ==
    << << << <<"show", "sales", "last month">> >>,
          "{\"action\":\"filter\",\"target\":\"sales\",\"params\":{\"dateRange\":\"last_month\"},\"confidence\":0.95}" >>,
       << << <<"navigate">>, <<"go">>, <<"open">>, <<"show", "dashboard">> >>,
          "{\"action\":\"navigate\",\"target\":\"dashboard\",\"confidence\":0.95}" >>,
       << << <<"navigate">>, <<"go">>, <<"open">>, <<"show", "settings">> >>,
          "{\"action\":\"navigate\",\"target\":\"settings\",\"confidence\":0.95}" >>,
       << << <<"navigate">>, <<"go">>, <<"open">>, <<"show", "profile">> >>,
          "{\"action\":\"navigate\",\"target\":\"profile\",\"confidence\":0.95}" >>,
       << << <<"export", "pdf">> >>,
          "{\"action\":\"export\",\"target\":\"current\",\"params\":{\"format\":\"pdf\"},\"confidence\":0.9}" >>,
       << << <<"export", "csv">> >>,
          "{\"action\":\"export\",\"target\":\"current\",\"params\":{\"format\":\"csv\"},\"confidence\":0.9}" >>,
       << << <<"filter", "region", "europe">> >>,
          "{\"action\":\"filter\",\"target\":\"data\",\"params\":{\"region\":\"europe\"},\"confidence\":0.92}" >>,
       << << <<"sort", "by", "date">> >>,
          "{\"action\":\"sort\",\"target\":\"data\",\"params\":{\"field\":\"date\"},\"confidence\":0.88}" >>,
       << << <<"hello">>, <<"hi">>, <<"hey">> >>,
          "{\"action\":\"greet\",\"confidence\":0.8}" >> >>

FallbackPrefix == "{\"action\":\"unknown\",\"params\":{\"rawInput\":"

FallbackSuffix == "},\"confidence\":0.4}"

\* JSON.stringify(fallback)
FallbackText(input) == FallbackPrefix \o JSONQuote(input) \o FallbackSuffix

\* the rules whose pattern matches the prompt
MatchingRules(input) ==
    { k \in 1..Len(patternResponses) : RegExpTest(patternResponses[k][1], input) }

\* mutant: the last rule that matches wins
LastMatch(rules) == CHOOSE k \in rules : \A j \in rules : j <= k

\* the loop returns at the first rule that matches
FirstMatch(rules) == CHOOSE k \in rules : \A j \in rules : k <= j

\* MockProvider.generate({prompt}); usage is not read by the program
MockGenerate(text) ==
    LET rules == MatchingRules(text)
    IN  IF rules # {}
        THEN [content |-> patternResponses[FirstMatch(rules)][2]]
        ELSE [content |-> FallbackText(text)]

(***************************************************************************)
(* The inputs the callers give.                                            *)
(***************************************************************************)
Inputs ==
    { <<"Show", " ", "me", " ", "sales">>,
      <<" ", "Please", "\t", "Open", " ", "setting">>,
      <<"my", " ", "Password">>,
      <<"Credit", "\t", " ", "card">> }

Calls == 1..MaxInFlight

\* two callers of one instance
Callers == {1, 2}

VARIABLES
    options,      \* this.options of the instance (fixed at construction)
    history,      \* this.history
    appended,     \* the items pushed since the last clearHistory, in push order
    pc,           \* per call: "idle", "awaiting" (the await of generate), "done"
    callInput,    \* per call: the input argument
    callContext,  \* per call: the context argument, {} if it was not given
    prompt,       \* per call: the local prompt of the attempt under way
    attempts,     \* per call: the local attempts
    lastResult,   \* per call: the local lastResult
    invocations,  \* per call: how many times generate has been called
    lastResponse, \* per call: what the latest call of generate resolved to or threw
    result,       \* per call: the value parseIntent returned
    started,      \* the calls that have not been handed back yet, in the order they were started
    cleared,      \* clearHistory was called and no call has been started since
    actionExecutors, \* the registry of executors (own properties of the object)
    rpc,          \* routeIntent: "idle", "middleware", "fallback", "executor", "done"
    rintent,      \* routeIntent: intent (currentIntent while the middleware runs)
    rcontext,     \* routeIntent: context
    roptions,     \* routeIntent: mergedOptions
    rindex,       \* routeIntent: position in mergedOptions.middleware
    invoked,      \* the functions routeIntent has called, in call order
    response,     \* what the promise of routeIntent settled to
    gpc,          \* generate of a provider: "idle", "timer", "fetch", "json", "done"
    gprovider,    \* generate: the name of the provider
    gprompt,      \* generate: request.prompt
    ghttp,        \* generate: the Response that fetch resolved to
    gresult,      \* what the promise of generate settled to
    registrations, \* the calls of registerExecutor the application made, in call order
    snapshot,     \* what the latest call of getExecutors returned
    cpc,          \* executeChain: "idle", "executing" (the await of a handler), "done"
    cintents,     \* executeChain: intents
    cindex,       \* executeChain: the position of the intent whose handler is awaited
    cresults,     \* executeChain: results
    cevents,      \* the calls of handlers executeChain made and their ends, in order
    cresponse,    \* what the promise of executeChain settled to
    ppc,          \* IntentJS.process: "idle", "parsing", "routing", "done"
    pparsed,      \* IntentJS.process: parseResult
    presult       \* what the promise of IntentJS.process settled to

nluVars ==
    << options, history, appended, pc, callInput, callContext, prompt, attempts,
       lastResult, invocations, lastResponse, result, started, cleared >>

routerVars ==
    << actionExecutors, rpc, rintent, rcontext, roptions, rindex, invoked, response >>

providerVars == << gpc, gprovider, gprompt, ghttp, gresult >>

registryVars == << registrations, snapshot >>

chainVars == << cpc, cintents, cindex, cresults, cevents, cresponse >>

processVars == << ppc, pparsed, presult >>

appVars == << registryVars, chainVars, processVars >>

vars == << nluVars, routerVars, providerVars, appVars >>

OptionSets ==
    [ maxRetries : 0..MaxRetriesBound,
      retryOnFailure : BOOLEAN,
      minConfidence : {ConfZero, DefaultMinConfidence},
      keepHistory : BOOLEAN,
      historyLimit : 0..MaxHistoryLimit,
      debug : BOOLEAN ]

\* the options of new NaturalLanguageUnderstanding() without arguments
DefaultOptions ==
    [ maxRetries |-> 1,
      retryOnFailure |-> TRUE,
      minConfidence |-> DefaultMinConfidence,
      keepHistory |-> TRUE,
      historyLimit |-> 10,
      debug |-> FALSE ]

\* no call of routeIntent yet; the registry as the module defines it
RouterInit ==
    /\ actionExecutors = DefaultExecutors
    /\ rpc = "idle"
    /\ rintent = Null
    /\ rcontext = Undefined
    /\ roptions = Null
    /\ rindex = 0
    /\ invoked = <<>>
    /\ response = Null

\* no call of parseIntent yet
NluInit ==
    /\ history = <<>>
    /\ appended = <<>>
    /\ pc = [c \in Calls |-> "idle"]
    /\ callInput = [c \in Calls |-> <<>>]
    /\ callContext = [c \in Calls |-> {}]
    /\ prompt = [c \in Calls |-> ""]
    /\ attempts = [c \in Calls |-> 0]
    /\ lastResult = [c \in Calls |-> Null]
    /\ invocations = [c \in Calls |-> 0]
    /\ lastResponse = [c \in Calls |-> Null]
    /\ result = [c \in Calls |-> Null]
    /\ started = <<>>
    /\ cleared = FALSE

\* no call of generate on a provider yet
ProviderInit ==
    /\ gpc = "idle"
    /\ gprovider = ""
    /\ gprompt = ""
    /\ ghttp = Null
    /\ gresult = Null

\* the application has not called the registry, executeChain or IntentJS yet
AppInit ==
    /\ registrations = <<>>
    /\ snapshot = Null
    /\ cpc = "idle"
    /\ cintents = <<>>
    /\ cindex = 0
    /\ cresults = <<>>
    /\ cevents = <<>>
    /\ cresponse = Null
    /\ ppc = "idle"
    /\ pparsed = Null
    /\ presult = Null

Init ==
    /\ options \in OptionSets
    /\ NluInit
    /\ RouterInit
    /\ ProviderInit
    /\ AppInit


(***************************************************************************)
(* parseIntent: the pieces of its loop body.                               *)
(***************************************************************************)
\* mutant: the loop test off by one
LoopContinuesOffByOne(att) == att <= options.maxRetries + 1

\* while (attempts <= maxRetries)
LoopContinues(att) == att <= options.maxRetries

\* mutant: the check is made on the input as given
SensitiveCheckRaw(input) == hasSensitiveContent(input)

\* hasSensitiveContent(normalizeInput(input))
SensitiveCheck(input) == hasSensitiveContent(normalizeInput(input))

\* mutant: the upper bound is forgotten
ClampLowerOnly(conf) == Max(ConfZero, conf)

\* Math.max(0, Math.min(1, confidence))
Clamp(conf) == Max(ConfZero, Min(ConfOne, conf))

\* if (intent.confidence !== undefined) intent.confidence = clamp
ClampConfidence(intent) ==
    IF "confidence" \in DOMAIN intent
    THEN [intent EXCEPT !.confidence = Clamp(@)]
    ELSE intent

\* !intent.action is false
HasAction(value) == "action" \in DOMAIN value /\ value.action # ""

\* mutant: the action check is forgotten
DecodeIntentNoActionCheck(content) ==
    LET parsed == JSONParse(content)
    IN  IF parsed.threw
        THEN [ok |-> FALSE, error |-> <<"Failed to parse intent: ", parsed.message>>]
        ELSE IF "jsnull" \in DOMAIN parsed.value
        THEN [ok |-> FALSE,
              error |-> <<"Failed to parse intent: ", "Cannot read properties of null">>]
        ELSE [ok |-> TRUE, intent |-> ClampConfidence(parsed.value)]

\* The inner try: JSON.parse, the action check and the clamp.  A SyntaxError and
\* the TypeError of reading .action of null both land in the inner catch.
DecodeIntent(content) ==
    LET parsed == JSONParse(content)
    IN  IF parsed.threw
        THEN [ok |-> FALSE, error |-> <<"Failed to parse intent: ", parsed.message>>]
        ELSE IF "jsnull" \in DOMAIN parsed.value
        THEN [ok |-> FALSE,
              error |-> <<"Failed to parse intent: ", "Cannot read properties of null">>]
        ELSE IF ~HasAction(parsed.value)
        THEN [ok |-> FALSE,
              error |-> <<"Failed to parse intent: Missing required \"action\" field in intent">>]
        ELSE [ok |-> TRUE, intent |-> ClampConfidence(parsed.value)]

\* mutant: the comparison is not strict
BelowOrAtThreshold(intent) ==
    "confidence" \in DOMAIN intent /\ intent.confidence <= options.minConfidence

\* intent.confidence !== undefined && intent.confidence < minConfidence
BelowThreshold(intent) ==
    "confidence" \in DOMAIN intent /\ intent.confidence < options.minConfidence

\* mutant: retryOnFailure is not consulted
RetryLowConfidenceAlways(att) == att <= options.maxRetries

\* attempts <= maxRetries && retryOnFailure
RetryLowConfidence(att) == att <= options.maxRetries /\ options.retryOnFailure

SensitiveResult ==
    [success |-> FALSE,
     error |-> <<"Input contains sensitive content">>,
     processingTime |-> Elapsed]

ModelErrorResult(resp, att) ==
    [success |-> FALSE,
     error |-> <<"LLM error: ", resp.error>>,
     rawLLMResponse |-> resp.content,
     processingTime |-> Elapsed,
     retries |-> att - 1]

DecodeErrorResult(resp, att) ==
    [success |-> FALSE,
     error |-> DecodeIntent(resp.content).error,
     rawLLMResponse |-> resp.content,
     processingTime |-> Elapsed,
     retries |-> att - 1]

\* mutant: the low-confidence intent is returned along with the error
LowConfidenceResultWithIntent(resp, intent, att) ==
    [success |-> FALSE,
     intent |-> intent,
     error |-> <<"Low confidence intent (", ToString(intent.confidence), ")">>,
     rawLLMResponse |-> resp.content,
     processingTime |-> Elapsed,
     retries |-> att - 1,
     correctionSuggestion |-> "Can you rephrase or clarify your command?"]

LowConfidenceResult(resp, intent, att) ==
    [success |-> FALSE,
     error |-> <<"Low confidence intent (", ToString(intent.confidence), ")">>,
     rawLLMResponse |-> resp.content,
     processingTime |-> Elapsed,
     retries |-> att - 1,
     correctionSuggestion |-> "Can you rephrase or clarify your command?"]

\* mutant: retries reports the attempts made
SuccessResultCountingAttempts(resp, intent, att) ==
    IF options.debug
    THEN [success |-> TRUE, intent |-> intent, rawLLMResponse |-> resp.content,
          processingTime |-> Elapsed, retries |-> att]
    ELSE [success |-> TRUE, intent |-> intent,
          processingTime |-> Elapsed, retries |-> att]

\* rawLLMResponse: debug ? llmResponse.content : undefined
SuccessResult(resp, intent, att) ==
    IF options.debug
    THEN [success |-> TRUE, intent |-> intent, rawLLMResponse |-> resp.content,
          processingTime |-> Elapsed, retries |-> att - 1]
    ELSE [success |-> TRUE, intent |-> intent,
          processingTime |-> Elapsed, retries |-> att - 1]

\* mutant: the outer catch lets the error go and the promise of parseIntent rejects
UnexpectedErrorRethrown(message, att) == [rejected |-> message]

\* catch (error) of the outer try
UnexpectedErrorResult(message, att) ==
    [success |-> FALSE,
     error |-> <<"Unexpected error: ", message>>,
     processingTime |-> Elapsed,
     retries |-> att - 1]

HistoryItem(input, intent) ==
    [input |-> input, intent |-> intent, timestamp |-> Timestamp]

\* mutant: the new item is put in front
addToHistoryFront(h, input, intent) ==
    LET pushed == <<HistoryItem(input, intent)>> \o h
    IN  IF options.historyLimit > 0 /\ Len(pushed) > options.historyLimit
        THEN LastN(pushed, options.historyLimit)
        ELSE pushed

\* mutant: the item is pushed twice
addToHistoryTwice(h, input, intent) ==
    LET pushed == h \o <<HistoryItem(input, intent), HistoryItem(input, intent)>>
    IN  IF options.historyLimit # 0 /\ Len(pushed) > options.historyLimit
        THEN SubSeq(pushed, Len(pushed) - options.historyLimit + 1, Len(pushed))
        ELSE pushed

\* addToHistory: push, then truncate if (historyLimit && length > historyLimit)
addToHistory(h, input, intent) ==
    LET pushed == Append(h, HistoryItem(input, intent))
    IN  IF options.historyLimit # 0 /\ Len(pushed) > options.historyLimit
        THEN LastN(pushed, options.historyLimit)
        ELSE pushed

\* mutant: a failure recorded by an earlier attempt is returned in place of v
ReturnRecorded(c, v, att, last) ==
    /\ pc' = [pc EXCEPT ![c] = "done"]
    /\ result' = [result EXCEPT ![c] = IF lastResult[c] = Null THEN v ELSE lastResult[c]]
    /\ attempts' = [attempts EXCEPT ![c] = att]
    /\ lastResult' = [lastResult EXCEPT ![c] = last]
    /\ invocations' = invocations
    /\ prompt' = prompt

\* The call returns v.
Return(c, v, att, last) ==
    /\ pc' = [pc EXCEPT ![c] = "done"]
    /\ result' = [result EXCEPT ![c] = v]
    /\ attempts' = [attempts EXCEPT ![c] = att]
    /\ lastResult' = [lastResult EXCEPT ![c] = last]
    /\ invocations' = invocations
    /\ prompt' = prompt

\* mutant: the value of a is kept where both have the key
MergeFirstWins(a, b) ==
    [k \in DOMAIN a \cup DOMAIN b |-> IF k \in DOMAIN a THEN a[k] ELSE b[k]]

\* {...a, ...b}: the keys of both, the value of b where b has the key
Merge(a, b) ==
    [k \in DOMAIN a \cup DOMAIN b |-> IF k \in DOMAIN b THEN b[k] ELSE a[k]]

\* what ...x spreads: the properties of x, none if x is undefined
Spread(x) == IF x = {} THEN EmptyObject ELSE CHOOSE v \in x : TRUE

\* this.options.defaultContext and this.options.promptOptions, {} if not set
DefaultContext ==
    IF "defaultContext" \in DOMAIN options THEN {options.defaultContext} ELSE {}

PromptOptions ==
    IF "promptOptions" \in DOMAIN options THEN options.promptOptions ELSE EmptyObject

\* mergedContext = {...this.options.defaultContext, ...context}
MergedContext(context) == Merge(Spread(DefaultContext), Spread(context))

\* the prompt of an attempt: createDefaultIntentPrompt(normalizedInput,
\* mergedContext, keepHistory ? this.history : undefined, promptOptions)
BuildPrompt(input, context) ==
    createDefaultIntentPrompt(JoinAtoms(normalizeInput(input)),
                              {MergedContext(context)},
                              IF options.keepHistory THEN {history} ELSE {},
                              PromptOptions)

\* mutant: the loop does not count its attempts
IterateWithoutCounting(c, input, context, att, last) ==
    IF SensitiveCheck(input)
    THEN Return(c, SensitiveResult, att, last)
    ELSE /\ pc' = [pc EXCEPT ![c] = "awaiting"]
         /\ prompt' = [prompt EXCEPT ![c] = BuildPrompt(input, context)]
         /\ attempts' = [attempts EXCEPT ![c] = att]
         /\ lastResult' = [lastResult EXCEPT ![c] = last]
         /\ invocations' = invocations
         /\ result' = result

\* From the loop test to the next await or return, with attempts = att and
\* lastResult = last on entry: the test, attempts++, normalisation, the
\* sensitive-content check, the prompt and the call of generate.
Iterate(c, input, context, att, last) ==
    IF ~LoopContinues(att)
    THEN Return(c, last, att, last)
    ELSE IF SensitiveCheck(input)
    THEN Return(c, SensitiveResult, att + 1, last)
    ELSE /\ pc' = [pc EXCEPT ![c] = "awaiting"]
         /\ prompt' = [prompt EXCEPT ![c] = BuildPrompt(input, context)]
         /\ attempts' = [attempts EXCEPT ![c] = att + 1]
         /\ lastResult' = [lastResult EXCEPT ![c] = last]
         /\ invocations' = [invocations EXCEPT ![c] = @ + 1]
         /\ result' = result

\* the await of generate ends with resp
Observe(c, resp) == lastResponse' = [lastResponse EXCEPT ![c] = resp]

(***************************************************************************)
(* Actions.                                                                *)
(***************************************************************************)
\* parseIntent(input, context) from its first statement to its first await
\* or return, in the slot c
EnterParseIntent(c, input, context) ==
    /\ callInput' = [callInput EXCEPT ![c] = input]
    /\ callContext' = [callContext EXCEPT ![c] = context]
    /\ lastResponse' = [lastResponse EXCEPT ![c] = Null]
    /\ Iterate(c, input, context, 0, Null)
    /\ started' = Append(started, c)
    /\ cleared' = FALSE
    /\ UNCHANGED <<options, history, appended>>

\* A caller calls parseIntent(input, context); the call runs to its first
\* await or return.
ParseIntentIn(c, input, context) ==
    /\ pc[c] = "idle"
    /\ \A d \in Calls : d < c => pc[d] # "idle"
    /\ Len(appended) < MaxPushed
    /\ EnterParseIntent(c, input, context)
    /\ UNCHANGED <<routerVars, providerVars, appVars>>

\* A caller calls parseIntent(input).
ParseIntent(c, input) == ParseIntentIn(c, input, {})

\* generate resolved with an error: lastResult is set and the loop is left (break)
ModelError(c, resp) ==
    /\ pc[c] = "awaiting"
    /\ "error" \in DOMAIN resp
    /\ Observe(c, resp)
    /\ LET r == ModelErrorResult(resp, attempts[c])
       IN  Return(c, r, attempts[c], r)
    /\ UNCHANGED <<routerVars, providerVars, appVars>>
    /\ UNCHANGED <<options, history, appended, callInput, callContext, started, cleared>>

\* generate resolved with text that does not decode: lastResult is set, continue
DecodeFailure(c, resp) ==
    /\ pc[c] = "awaiting"
    /\ "error" \notin DOMAIN resp
    /\ ~DecodeIntent(resp.content).ok
    /\ Observe(c, resp)
    /\ Iterate(c, callInput[c], callContext[c], attempts[c], DecodeErrorResult(resp, attempts[c]))
    /\ UNCHANGED <<routerVars, providerVars, appVars>>
    /\ UNCHANGED <<options, history, appended, callInput, callContext, started, cleared>>

\* generate resolved with an intent below the threshold: continue, or return the failure
LowConfidence(c, resp) ==
    /\ pc[c] = "awaiting"
    /\ "error" \notin DOMAIN resp
    /\ DecodeIntent(resp.content).ok
    /\ LET intent == DecodeIntent(resp.content).intent
       IN  /\ BelowThreshold(intent)
           /\ IF RetryLowConfidence(attempts[c])
              THEN Iterate(c, callInput[c], callContext[c], attempts[c], lastResult[c])
              ELSE Return(c, LowConfidenceResult(resp, intent, attempts[c]),
                          attempts[c], lastResult[c])
    /\ Observe(c, resp)
    /\ UNCHANGED <<routerVars, providerVars, appVars>>
    /\ UNCHANGED <<options, history, appended, callInput, callContext, started, cleared>>

\* generate resolved with an acceptable intent: history, then the success result
Success(c, resp) ==
    /\ pc[c] = "awaiting"
    /\ "error" \notin DOMAIN resp
    /\ DecodeIntent(resp.content).ok
    /\ LET intent == DecodeIntent(resp.content).intent
           input == normalizeInput(callInput[c])
       IN  /\ ~BelowThreshold(intent)
           /\ IF options.keepHistory
              THEN /\ history' = addToHistory(history, input, intent)
                   /\ appended' = Append(appended, HistoryItem(input, intent))
              ELSE UNCHANGED <<history, appended>>
           /\ Return(c, SuccessResult(resp, intent, attempts[c]),
                     attempts[c], lastResult[c])
    /\ Observe(c, resp)
    /\ UNCHANGED <<routerVars, providerVars, appVars>>
    /\ UNCHANGED <<options, callInput, callContext, started, cleared>>

\* generate rejected: the outer catch sets lastResult and the loop is left (break)
ModelThrows(c) ==
    /\ pc[c] = "awaiting"
    /\ Observe(c, [threw |-> "network down"])
    /\ LET r == UnexpectedErrorResult("network down", attempts[c])
       IN  Return(c, r, attempts[c], r)
    /\ UNCHANGED <<routerVars, providerVars, appVars>>
    /\ UNCHANGED <<options, history, appended, callInput, callContext, started, cleared>>

\* the slot c of a call of parseIntent that has been handed back
HandBack(c) ==
    /\ pc' = [pc EXCEPT ![c] = "idle"]
    /\ callInput' = [callInput EXCEPT ![c] = <<>>]
    /\ callContext' = [callContext EXCEPT ![c] = {}]
    /\ prompt' = [prompt EXCEPT ![c] = ""]
    /\ attempts' = [attempts EXCEPT ![c] = 0]
    /\ lastResult' = [lastResult EXCEPT ![c] = Null]
    /\ invocations' = [invocations EXCEPT ![c] = 0]
    /\ lastResponse' = [lastResponse EXCEPT ![c] = Null]
    /\ result' = [result EXCEPT ![c] = Null]
    /\ started' = SelectSeq(started, LAMBDA d : d # c)
    /\ UNCHANGED <<options, history, appended, cleared>>

\* The caller has the result; the call's locals are gone.
Returned(c) ==
    /\ pc[c] = "done"
    /\ HandBack(c)
    /\ UNCHANGED <<routerVars, providerVars, appVars>>

\* mutant: clearHistory also abandons the calls that are awaiting the model
clearHistoryCancelling ==
    /\ history' = <<>>
    /\ appended' = <<>>
    /\ cleared' = TRUE
    /\ pc' = [c \in Calls |-> IF pc[c] = "awaiting" THEN "done" ELSE pc[c]]
    /\ result' = [c \in Calls |->
                     IF pc[c] = "awaiting"
                     THEN UnexpectedErrorResult("cancelled", attempts[c])
                     ELSE result[c]]
    /\ UNCHANGED <<routerVars, providerVars, appVars>>
    /\ UNCHANGED <<options, callInput, callContext, prompt, attempts, lastResult,
                   invocations, lastResponse, started>>

clearHistory ==
    /\ history' = <<>>
    /\ appended' = <<>>
    /\ cleared' = TRUE
    /\ UNCHANGED <<routerVars, providerVars, appVars>>
    /\ UNCHANGED <<options, pc, callInput, callContext, prompt, attempts, lastResult,
                   invocations, lastResponse, result, started>>

\* no call is in flight: the caller awaits each call before the next
Serial == \A c \in Calls : pc[c] = "idle"

\* parseIntent called by a caller that awaits each call before the next
AwaitedParseIntent(c, input) == Serial /\ ParseIntent(c, input)

Next ==
    \/ \E c \in Calls, input \in Inputs : AwaitedParseIntent(c, input)
    \/ \E c \in Calls, resp \in LLMResponses : ModelError(c, resp)
    \/ \E c \in Calls, resp \in LLMResponses : DecodeFailure(c, resp)
    \/ \E c \in Calls, resp \in LLMResponses : LowConfidence(c, resp)
    \/ \E c \in Calls, resp \in LLMResponses : Success(c, resp)
    \/ \E c \in Calls : ModelThrows(c)
    \/ \E c \in Calls : Returned(c)
    \/ clearHistory

Spec == Init /\ [][Next]_vars

\* the await of generate of call c ends: generate resolved or rejected
GenerateSettles(c) ==
    \/ \E resp \in LLMResponses :
          \/ ModelError(c, resp)
          \/ DecodeFailure(c, resp)
          \/ LowConfidence(c, resp)
          \/ Success(c, resp)
    \/ ModelThrows(c)

\* the instances of the runs with a model that answers: every retry budget,
\* both retryOnFailure settings, both thresholds, with and without history
FairOptionSets ==
    { o \in OptionSets : o.historyLimit = MaxHistoryLimit /\ ~o.debug }

InitFair ==
    /\ options \in FairOptionSets
    /\ NluInit
    /\ RouterInit
    /\ ProviderInit
    /\ AppInit

\* The same caller with a model that answers every call of generate: no
\* call awaits forever.
FairSpec == InitFair /\ [][Next]_vars /\ \A c \in Calls : WF_vars(GenerateSettles(c))

(***************************************************************************)
(* Callers that do not await: calls of parseIntent on one instance overlap *)
(* at the await of generate.  The instance is one that retries and keeps   *)
(* its history.                                                            *)
(***************************************************************************)
ConcurrentOptionSets ==
    [ maxRetries : 0..MaxRetriesBound,
      retryOnFailure : {TRUE},
      minConfidence : {DefaultMinConfidence},
      keepHistory : BOOLEAN,
      historyLimit : 0..MaxHistoryLimit,
      debug : {FALSE} ]

\* what the overlapping callers say, and what the model answers them
ConcurrentInputs ==
    { <<"Show", " ", "me", " ", "sales">>,
      <<" ", "Please", "\t", "Open", " ", "setting">> }

ConcurrentResponses ==
    { [content |-> "{\"action\":\"greet\"}"],
      [content |-> "{\"action\":\"unknown\",\"confidence\":0.4}"],
      [content |-> "not json"],
      [content |-> "", error |-> "rate limited"] }

InitConcurrent ==
    /\ options \in ConcurrentOptionSets
    /\ NluInit
    /\ RouterInit
    /\ ProviderInit
    /\ AppInit

OverlappingParseIntent(c, input) == c \in Callers /\ ParseIntent(c, input)

NextConcurrent ==
    \/ \E c \in Calls, input \in ConcurrentInputs : OverlappingParseIntent(c, input)
    \/ \E c \in Calls, resp \in ConcurrentResponses : ModelError(c, resp)
    \/ \E c \in Calls, resp \in ConcurrentResponses : DecodeFailure(c, resp)
    \/ \E c \in Calls, resp \in ConcurrentResponses : LowConfidence(c, resp)
    \/ \E c \in Calls, resp \in ConcurrentResponses : Success(c, resp)
    \/ \E c \in Calls : ModelThrows(c)
    \/ \E c \in Calls : Returned(c)
    \/ clearHistory

SpecConcurrent == InitConcurrent /\ [][NextConcurrent]_vars


(***************************************************************************)
(* The instance with the stub provider: createLLMProvider('mock').         *)
(***************************************************************************)
ShowSalesInput ==
    <<"Show", " ", "me", " ", "sales", " ", "from", " ", "last", " ", "month">>

GibberishInput == <<"asdkjasd">>

MockInputs ==
    { ShowSalesInput,
      GibberishInput,
      <<"export", " ", "as", " ", "csv">>,
      <<" ", "Please", "\t", "Open", " ", "setting">>,
      <<"my", " ", "Password">> }

\* options.defaultContext: none, a page of reports, the dashboard of the demo
PromptContexts ==
    { EmptyObject,
      [ page |-> "reports",
        availableActions |-> <<"filter", "sort", "export">> ],
      [ page |-> "dashboard",
        availableActions |-> <<"navigate", "filter", "sort", "export">>,
        availableTargets |-> <<"dashboard", "settings", "profile", "reports",
                               "sales", "users">> ] }

MockOptionSets ==
    [ maxRetries : 0..MaxRetriesBound,
      retryOnFailure : {TRUE},
      minConfidence : {DefaultMinConfidence, 90},
      keepHistory : BOOLEAN,
      historyLimit : {10},
      debug : {FALSE},
      defaultContext : PromptContexts ]

\* the prompts the instance can build from these inputs and contexts
MockPrompts ==
    { createDefaultIntentPrompt(JoinAtoms(normalizeInput(input)), {context}, {}, EmptyObject) :
        input \in MockInputs, context \in PromptContexts }

\* what the stub answers to each of them
MockResponses == [text \in MockPrompts |-> MockGenerate(text)]

\* mutant: a stub with a memory, which answers by its last rule once the
\* instance has a history
StubGenerateWithMemory(text) ==
    IF history = <<>> THEN MockResponses[text]
    ELSE [content |-> patternResponses[Len(patternResponses)][2]]

\* await this.llmProvider.generate({prompt}) with the stub as provider
StubGenerate(text) == MockResponses[text]

\* parseIntent called by one of two callers that await each call before the
\* next and keep the results
SequentialParseIntent(c, input) ==
    /\ c \in Callers
    /\ \A d \in Calls : pc[d] # "awaiting"
    /\ ParseIntent(c, input)

\* The await of generate ends with the stub's response, and parseIntent goes on
\* with it.
MockResponds(c) ==
    /\ pc[c] = "awaiting"
    /\ LET resp == StubGenerate(prompt[c])
       IN  \/ ModelError(c, resp)
           \/ DecodeFailure(c, resp)
           \/ LowConfidence(c, resp)
           \/ Success(c, resp)

InitMock ==
    /\ options \in MockOptionSets
    /\ NluInit
    /\ RouterInit
    /\ ProviderInit
    /\ AppInit

NextMock ==
    \/ \E c \in Calls, input \in MockInputs : SequentialParseIntent(c, input)
    \/ \E c \in Calls : MockResponds(c)
    \/ \E c \in Calls : Returned(c)
    \/ clearHistory

SpecMock == InitMock /\ [][NextMock]_vars

(***************************************************************************)
(* parseVoiceIntent(voiceInput, context): the voice input is a string or a *)
(* promise of a string.                                                    *)
(***************************************************************************)
\* voiceInput: a string, or a promise that is pending when it is given
VoiceArguments == { [text |-> input] : input \in Inputs } \cup { [promise |-> TRUE] }

\* what the promise settles to: a string, or a rejection with an Error or
\* with no reason (reject(null))
VoiceOutcomes ==
    { [resolves |-> input] : input \in Inputs }
    \cup { [rejects |-> [message |-> "no speech"]], [rejects |-> Null] }

\* textInput as it is handed to parseIntent
TextInput(text) == text

\* catch (error) of parseVoiceIntent: `Voice processing error: ${error.message}`;
\* reading .message of null throws inside the catch and the promise rejects
VoiceCatch(error) ==
    IF error = Null
    THEN [rejected |-> NullTypeError]
    ELSE [success |-> FALSE, error |-> << "Voice processing error: ", error.message >>]

\* parseVoiceIntent up to its first await or return: for a string it is in
\* parseIntent at once, for a promise it awaits the promise
ParseVoiceIntent(c, voice) ==
    /\ Serial
    /\ c = 1
    /\ Len(appended) < MaxPushed
    /\ IF "text" \in DOMAIN voice
       THEN EnterParseIntent(c, TextInput(voice.text), {})
       ELSE /\ pc' = [pc EXCEPT ![c] = "listening"]
            /\ UNCHANGED <<options, history, appended, callInput, callContext, prompt,
                           attempts, lastResult, invocations, lastResponse, result,
                           started, cleared>>
    /\ UNCHANGED <<routerVars, providerVars, appVars>>

\* the awaited promise of the voice input settles
VoiceSettles(c, outcome) ==
    /\ pc[c] = "listening"
    /\ IF "resolves" \in DOMAIN outcome
       THEN EnterParseIntent(c, TextInput(outcome.resolves), {})
       ELSE /\ pc' = [pc EXCEPT ![c] = "done"]
            /\ result' = [result EXCEPT ![c] = VoiceCatch(outcome.rejects)]
            /\ lastResponse' = [lastResponse EXCEPT ![c] = [voice |-> outcome.rejects]]
            /\ UNCHANGED <<options, history, appended, callInput, callContext, prompt,
                           attempts, lastResult, invocations, started, cleared>>
    /\ UNCHANGED <<routerVars, providerVars, appVars>>

InitVoice ==
    /\ options \in FairOptionSets
    /\ NluInit
    /\ RouterInit
    /\ ProviderInit
    /\ AppInit

NextVoice ==
    \/ \E c \in Calls, voice \in VoiceArguments : ParseVoiceIntent(c, voice)
    \/ \E c \in Calls, outcome \in VoiceOutcomes : VoiceSettles(c, outcome)
    \/ \E c \in Calls, resp \in LLMResponses : ModelError(c, resp)
    \/ \E c \in Calls, resp \in LLMResponses : DecodeFailure(c, resp)
    \/ \E c \in Calls, resp \in LLMResponses : LowConfidence(c, resp)
    \/ \E c \in Calls, resp \in LLMResponses : Success(c, resp)
    \/ \E c \in Calls : ModelThrows(c)
    \/ \E c \in Calls : Returned(c)

SpecVoice == InitVoice /\ [][NextVoice]_vars

(***************************************************************************)
(* The prompts of an instance that has a default context and prompt        *)
(* options.  Its caller gives a context and awaits each call, and calls    *)
(* clearHistory and updateDefaultContext at any time.                      *)
(***************************************************************************)
\* updateDefaultContext(context)
updateDefaultContext(context) ==
    /\ options' = Merge(options,
                        [defaultContext |-> Merge(Spread(DefaultContext), context)])
    /\ UNCHANGED <<routerVars, providerVars, appVars>>
    /\ UNCHANGED <<history, appended, pc, callInput, callContext, prompt, attempts,
                   lastResult, invocations, lastResponse, result, started, cleared>>

\* options.promptOptions: not given, or one of these
PromptOptionChoices ==
    { [includeContext |-> FALSE], [includeHistory |-> TRUE] }
    \cup { [includeHistory |-> TRUE, historyLimit |-> n] : n \in 0..MaxHistoryLimit }

ReportsContext ==
    [ page |-> "reports", availableActions |-> <<"filter", "sort", "export">> ]

PromptOptionSets ==
    LET base == [ maxRetries : 0..MaxRetriesBound,
                  retryOnFailure : {TRUE},
                  minConfidence : {DefaultMinConfidence},
                  keepHistory : BOOLEAN,
                  historyLimit : {10},
                  debug : {FALSE} ]
        withContext == base \cup { Merge(o, [defaultContext |-> ReportsContext]) : o \in base }
    IN  withContext
        \cup { Merge(o, [promptOptions |-> po]) : o \in withContext, po \in PromptOptionChoices }

\* the context argument of parseIntent: not given, or one of these
CallContexts ==
    { {},
      { [page |-> "settings"] },
      { [availableActions |-> <<"filter">>, appState |-> [user |-> "ann"]] } }

\* the arguments of updateDefaultContext
ContextUpdates ==
    { [page |-> "sales"], [availableTargets |-> <<"users", "sales">>] }

PromptInputs ==
    { <<"export", " ", "csv">> }

PromptResponses ==
    { [content |-> "{\"action\":\"greet\"}"],
      [content |-> "{\"action\":\"export\",\"target\":\"current\",\"params\":{\"format\":\"csv\"},\"confidence\":0.9}"],
      [content |-> "not json"] }

InitPrompt ==
    /\ options \in PromptOptionSets
    /\ NluInit
    /\ RouterInit
    /\ ProviderInit
    /\ AppInit

AwaitedParseIntentIn(c, input, context) == Serial /\ ParseIntentIn(c, input, context)

NextPrompt ==
    \/ \E c \in Calls, input \in PromptInputs, context \in CallContexts :
           AwaitedParseIntentIn(c, input, context)
    \/ \E c \in Calls, resp \in PromptResponses : DecodeFailure(c, resp)
    \/ \E c \in Calls, resp \in PromptResponses : Success(c, resp)
    \/ \E c \in Calls : Returned(c)
    \/ clearHistory
    \/ \E context \in ContextUpdates : updateDefaultContext(context)

SpecPrompt == InitPrompt /\ [][NextPrompt]_vars

(***************************************************************************)
(* The providers called directly: createLLMProvider(type).generate(request)*)
(* for the stub (llm/providers/mock.ts) and for the two providers that     *)
(* talk HTTP (llm/providers/anthropic.ts, llm/providers/openai.ts).        *)
(***************************************************************************)
\* the words the texts given to the stub are made of, joined by one space
StubWords ==
    { "show", "sales", "last month", "Go", "dashboard", "settings", "profile",
      "export", "csv", "pdf", "xyz", "\n" }

RECURSIVE WordLists(_)
WordLists(n) ==
    IF n = 0 THEN { <<>> }
    ELSE LET shorter == WordLists(n - 1)
         IN  shorter \cup { Append(l, w) : l \in { s \in shorter : Len(s) = n - 1 },
                                             w \in StubWords }

\* request.prompt of the calls of the stub
StubTexts == { JoinWith(l, " ") : l \in WordLists(MaxTextWords) }

\* request.prompt of the calls of the providers that talk HTTP
LivePrompts == { "hello" }

LiveProviders == { "anthropic", "openai" }

\* the bodies the HTTP exchange can bring
HttpBodies ==
    { "<html>502 Bad Gateway</html>",
      "",
      "null",
      "{}",
      "{\"error\":{\"message\":\"Invalid API key\"}}",
      "{\"error\":{\"message\":\"\"}}",
      "{\"error\":{\"type\":\"overloaded_error\"}}",
      "{\"content\":[]}",
      "{\"content\":[{\"type\":\"text\",\"text\":\"{\\\"action\\\":\\\"greet\\\"}\"}]}",
      "{\"choices\":[{\"message\":{\"content\":\"{\\\"action\\\":\\\"greet\\\"}\"}}]}",
      "{\"choices\":[{\"message\":{\"content\":\"{\\\"action\\\":\\\"greet\\\"}\"}}],\"usage\":{\"prompt_tokens\":12,\"completion_tokens\":5,\"total_tokens\":17}}" }

\* what fetch(url, init) settles to: it rejects with an Error when the
\* network fails, and resolves to a Response for every HTTP status
FetchOutcomes ==
    { [rejects |-> [message |-> m]] : m \in {"fetch failed", ""} }
    \cup { [resolves |-> [ok |-> o, body |-> b]] : o \in BOOLEAN, b \in HttpBodies }

\* response.json() on these bodies: it throws a SyntaxError or gives the value
ResponseJson(body) ==
    CASE body = "null" ->
            [threw |-> FALSE, value |-> [jsnull |-> TRUE]]
      [] body = "{}" ->
            [threw |-> FALSE, value |-> EmptyObject]
      [] body = "{\"error\":{\"message\":\"Invalid API key\"}}" ->
            [threw |-> FALSE, value |-> [error |-> [message |-> "Invalid API key"]]]
      [] body = "{\"error\":{\"message\":\"\"}}" ->
            [threw |-> FALSE, value |-> [error |-> [message |-> ""]]]
      [] body = "{\"error\":{\"type\":\"overloaded_error\"}}" ->
            [threw |-> FALSE, value |-> [error |-> [type |-> "overloaded_error"]]]
      [] body = "{\"content\":[]}" ->
            [threw |-> FALSE, value |-> [content |-> <<>>]]
      [] body = "{\"content\":[{\"type\":\"text\",\"text\":\"{\\\"action\\\":\\\"greet\\\"}\"}]}" ->
            [threw |-> FALSE,
             value |-> [content |-> << [type |-> "text", text |-> "{\"action\":\"greet\"}"] >>]]
      [] body = "{\"choices\":[{\"message\":{\"content\":\"{\\\"action\\\":\\\"greet\\\"}\"}}]}" ->
            [threw |-> FALSE,
             value |-> [choices |-> << [message |-> [content |-> "{\"action\":\"greet\"}"]] >>]]
      [] body = "{\"choices\":[{\"message\":{\"content\":\"{\\\"action\\\":\\\"greet\\\"}\"}}],\"usage\":{\"prompt_tokens\":12,\"completion_tokens\":5,\"total_tokens\":17}}" ->
            [threw |-> FALSE,
             value |-> [choices |-> << [message |-> [content |-> "{\"action\":\"greet\"}"]] >>,
                        usage |-> [prompt_tokens |-> 12, completion_tokens |-> 5,
                                   total_tokens |-> 17]]]
      [] body = "" ->
            [threw |-> TRUE, message |-> "Unexpected end of JSON input"]
      [] OTHER ->
            [threw |-> TRUE, message |-> "Unexpected token"]

\* what the promise of an async function settles to
Resolved(v) == [resolved |-> v]

Rejected(error) == [rejected |-> error]

\* a TypeError for reading a property of null or undefined
CannotRead == [message |-> "Cannot read properties"]

\* mutant: the catch block hands the error on
CatchRethrows(error) == Rejected(error)

\* catch (error) { return {content: '', error: error.message || 'Unknown error'} }
ProviderCatch(error) ==
    Resolved([content |-> "", error |-> OrElse(error, "message", "Unknown error")])

\* '<name> API request failed'
RequestFailed(provider) ==
    IF provider = "anthropic" THEN "Anthropic API request failed"
    ELSE "OpenAI API request failed"

\* the branch of !response.ok, after error = await response.json() gave value:
\* error.error?.message || '<name> API request failed'
NotOkResult(provider, value) ==
    IF "jsnull" \in DOMAIN value
    THEN ProviderCatch(CannotRead)
    ELSE Resolved([content |-> "",
                   error |-> IF "error" \in DOMAIN value
                             THEN OrElse(value.error, "message", RequestFailed(provider))
                             ELSE RequestFailed(provider)])

\* AnthropicProvider: {content: data.content[0].text, usage: zeros}
AnthropicResult(data) ==
    IF \/ "jsnull" \in DOMAIN data
       \/ "content" \notin DOMAIN data
       \/ data.content = <<>>
    THEN ProviderCatch(CannotRead)
    ELSE Resolved([content |-> data.content[1].text,
                   usage |-> [promptTokens |-> 0, completionTokens |-> 0,
                              totalTokens |-> 0]])

\* OpenAIProvider: {content: data.choices[0].message.content, usage: data.usage...}
OpenAIResult(data) ==
    IF \/ "jsnull" \in DOMAIN data
       \/ "choices" \notin DOMAIN data
       \/ "usage" \notin DOMAIN data
    THEN ProviderCatch(CannotRead)
    ELSE Resolved([content |-> data.choices[1].message.content,
                   usage |-> [promptTokens |-> data.usage.prompt_tokens,
                              completionTokens |-> data.usage.completion_tokens,
                              totalTokens |-> data.usage.total_tokens]])

OkResult(provider, data) ==
    IF provider = "anthropic" THEN AnthropicResult(data) ELSE OpenAIResult(data)

\* generate(request) up to its first await: the stub sets a timer, the
\* others call fetch
Generate(provider, text) ==
    /\ gpc = "idle"
    /\ gpc' = IF provider = "mock" THEN "timer" ELSE "fetch"
    /\ gprovider' = provider
    /\ gprompt' = text
    /\ ghttp' = Null
    /\ gresult' = Null
    /\ UNCHANGED <<nluVars, routerVars, appVars>>

\* the stub after its timer
TimerFires ==
    /\ gpc = "timer"
    /\ gpc' = "done"
    /\ gresult' = Resolved(MockGenerate(gprompt))
    /\ UNCHANGED <<gprovider, gprompt, ghttp>>
    /\ UNCHANGED <<nluVars, routerVars, appVars>>

\* fetch rejects: the catch block
FetchRejects(error) ==
    /\ gpc = "fetch"
    /\ gpc' = "done"
    /\ gresult' = ProviderCatch(error)
    /\ UNCHANGED <<gprovider, gprompt, ghttp>>
    /\ UNCHANGED <<nluVars, routerVars, appVars>>

\* fetch resolves: the provider calls response.json() in either branch
FetchResolves(resp) ==
    /\ gpc = "fetch"
    /\ gpc' = "json"
    /\ ghttp' = resp
    /\ UNCHANGED <<gprovider, gprompt, gresult>>
    /\ UNCHANGED <<nluVars, routerVars, appVars>>

FetchSettles ==
    \E outcome \in FetchOutcomes :
        IF "rejects" \in DOMAIN outcome
        THEN FetchRejects(outcome.rejects)
        ELSE FetchResolves(outcome.resolves)

\* response.json() settles
JsonSettles ==
    /\ gpc = "json"
    /\ gpc' = "done"
    /\ gresult' =
          LET parsed == ResponseJson(ghttp.body)
          IN  IF parsed.threw THEN ProviderCatch([message |-> parsed.message])
              ELSE IF ~ghttp.ok THEN NotOkResult(gprovider, parsed.value)
              ELSE OkResult(gprovider, parsed.value)
    /\ UNCHANGED <<gprovider, gprompt, ghttp>>
    /\ UNCHANGED <<nluVars, routerVars, appVars>>

\* the caller has the result and may call again
GenerateReturned ==
    /\ gpc = "done"
    /\ gpc' = "idle"
    /\ gprovider' = ""
    /\ gprompt' = ""
    /\ ghttp' = Null
    /\ gresult' = Null
    /\ UNCHANGED <<nluVars, routerVars, appVars>>

InitProvider ==
    /\ options = DefaultOptions
    /\ NluInit
    /\ RouterInit
    /\ ProviderInit
    /\ AppInit

NextProvider ==
    \/ \E text \in StubTexts : Generate("mock", text)
    \/ \E provider \in LiveProviders, text \in LivePrompts : Generate(provider, text)
    \/ TimerFires
    \/ FetchSettles
    \/ JsonSettles
    \/ GenerateReturned

SpecProvider == InitProvider /\ [][NextProvider]_vars

(***************************************************************************)
(* The router: routeIntent(intent, context, options).                      *)
(***************************************************************************)
RouterIntents ==
    { [action |-> "navigate", target |-> "settings"],
      [action |-> "greet"],
      [action |-> "unknown", params |-> [rawInput |-> "asdkjasd"]],
      [action |-> "search"],
      [action |-> "toString"] }

RouterContexts == { Undefined, [currentPage |-> "dashboard"] }

MiddlewareLists == UNION { [1..k -> MiddlewareKinds] : k \in 0..MaxMiddleware }

FallbackActions == {"greet", "dance", "toString"}

\* const defaultOptions of the router
defaultOptions == [defaultErrorMessage |-> DefaultErrorMessage, debug |-> FALSE]

\* options with and without a fallbackAction, with and without a
\* defaultErrorMessage of the caller, here the empty string
RouterOptionSets ==
    LET base == [ middleware : MiddlewareLists ]
                    \cup [ middleware : MiddlewareLists, fallbackAction : FallbackActions ]
    IN  base \cup { Merge(o, [defaultErrorMessage |-> ""]) : o \in base }

\* what the application may register, and under which names
RegistrableActions == {"dance"}

\* mutant: the outer catch lets the error go
OuterCatchRethrows(error) == Rejected(error)

\* catch (error) of the outer try
OuterCatch(error) ==
    Resolved([success |-> FALSE, message |-> << "Router error: ", error.message >>])

\* catch (error) around the call of the executor:
\* error.message || mergedOptions.defaultErrorMessage
InnerCatch(error, opts) ==
    Resolved([ success |-> FALSE,
               message |-> << IF error.message # "" THEN error.message
                              ELSE opts.defaultErrorMessage >> ])

\* mutant: the rejection is taken for an intent
IsRejectionNever(value) == FALSE

\* result === null
IsRejection(value) == value = Null

RejectedResponse == [success |-> FALSE, message |-> << "Intent rejected by middleware" >>]

UnknownActionResponse(intent) ==
    [success |-> FALSE, message |-> << "Unknown action: ", intent.action >>]

\* mutant: the value of the handler is read and only a part is passed on
ExecutedResponseInspecting(data) ==
    [success |-> TRUE, data |-> [result |-> data]]

ExecutedResponse(data) == [success |-> TRUE, data |-> data]

FallbackResponse(data, opts) ==
    [ success |-> TRUE,
      data |-> data,
      message |-> << "Executed fallback action: ", opts.fallbackAction >> ]

\* the last call of the log has ended with outcome
Ended(log, outcome) ==
    LET entry == log[Len(log)]
    IN  [ log EXCEPT ![Len(log)] =
            [ f \in DOMAIN entry \cup {"outcome"} |->
                IF f = "outcome" THEN outcome ELSE entry[f] ] ]

\* the promise of routeIntent settles
Settle(outcome, intent, log) ==
    /\ rpc' = "done"
    /\ response' = outcome
    /\ rintent' = intent
    /\ invoked' = log
    /\ rindex' = rindex

\* fn(intent, context) is called and awaited
Call(fn, role, intent, context, log) ==
    /\ rpc' = role
    /\ response' = response
    /\ rintent' = intent
    /\ invoked' = Append(log, [fn |-> fn, role |-> role, intent |-> intent,
                               context |-> context])
    /\ rindex' = rindex

\* mutant: every middleware function is given the intent of the caller
CallMiddlewareWithOriginal(i, intent, opts, log) ==
    LET original == IF log = <<>> THEN intent ELSE log[1].intent
    IN  /\ rpc' = "middleware"
        /\ response' = response
        /\ rintent' = original
        /\ invoked' = Append(log, [fn |-> opts.middleware[i], role |-> "middleware",
                                   index |-> i, intent |-> original])
        /\ rindex' = i

\* middleware i is called with the current intent and awaited
CallMiddleware(i, intent, opts, log) ==
    /\ rpc' = "middleware"
    /\ response' = response
    /\ rintent' = intent
    /\ invoked' = Append(log, [fn |-> opts.middleware[i], role |-> "middleware",
                               index |-> i, intent |-> intent])
    /\ rindex' = i

\* From the lookup of the executor to the await of its call, or to the return.
Dispatch(intent, context, opts, log) ==
    IF intent = Null
    THEN Settle(OuterCatch(NullTypeError), intent, log)
    ELSE
    LET executor == Get(actionExecutors, intent.action)
        fallbackExecutor ==
            IF "fallbackAction" \in DOMAIN opts
            THEN Get(actionExecutors, opts.fallbackAction) ELSE {}
    IN  IF executor = {} /\ fallbackExecutor # {}
        THEN LET fn == CHOOSE f \in fallbackExecutor : TRUE
             IN  IF IsCallable(fn)
                 THEN Call(fn, "fallback", intent, context, log)
                 ELSE Settle(OuterCatch([message |-> "fallbackExecutor is not a function"]),
                             intent, log)
        ELSE IF executor = {}
        THEN Settle(Resolved(UnknownActionResponse(intent)), intent, log)
        ELSE LET fn == CHOOSE f \in executor : TRUE
             IN  IF IsCallable(fn)
                 THEN Call(fn, "executor", intent, context, log)
                 ELSE Settle(InnerCatch([message |-> "executor is not a function"], opts),
                             intent, log)

\* routeIntent(intent, context, options) from its first statement to its
\* first await or return
EnterRouteIntent(intent, context, opts) ==
    /\ rcontext' = context
    /\ LET mergedOptions == Merge(defaultOptions, opts)
       IN  /\ roptions' = mergedOptions
           /\ IF "middleware" \in DOMAIN mergedOptions /\ Len(mergedOptions.middleware) > 0
              THEN CallMiddleware(1, intent, mergedOptions, <<>>)
              ELSE Dispatch(intent, context, mergedOptions, <<>>)
    /\ UNCHANGED actionExecutors

\* routeIntent is called; it runs to its first await or return
RouteIntent(intent, context, opts) ==
    /\ rpc = "idle"
    /\ EnterRouteIntent(intent, context, opts)
    /\ UNCHANGED <<nluVars, providerVars, appVars>>

\* the awaited middleware function returned or threw
MiddlewareSettles ==
    /\ rpc = "middleware"
    /\ LET outcome == MiddlewareOutcome(roptions.middleware[rindex], rintent)
       IN  IF "throws" \in DOMAIN outcome
           THEN Settle(OuterCatch(outcome.throws), rintent, Ended(invoked, outcome))
           ELSE IF IsRejection(outcome.returns)
           THEN Settle(Resolved(RejectedResponse), rintent, Ended(invoked, outcome))
           ELSE IF rindex < Len(roptions.middleware)
           THEN CallMiddleware(rindex + 1, outcome.returns, roptions,
                               Ended(invoked, outcome))
           ELSE Dispatch(outcome.returns, rcontext, roptions, Ended(invoked, outcome))
    /\ UNCHANGED <<actionExecutors, rcontext, roptions>>
    /\ UNCHANGED <<nluVars, providerVars, appVars>>

\* the awaited executor returned or threw
ExecutorSettles ==
    /\ rpc = "executor"
    /\ \E outcome \in ExecutorOutcomes(invoked[Len(invoked)].fn, rintent, rcontext) :
          IF "throws" \in DOMAIN outcome
          THEN Settle(InnerCatch(outcome.throws, roptions), rintent, Ended(invoked, outcome))
          ELSE Settle(Resolved(ExecutedResponse(outcome.returns)), rintent,
                      Ended(invoked, outcome))
    /\ UNCHANGED <<actionExecutors, rcontext, roptions>>
    /\ UNCHANGED <<nluVars, providerVars, appVars>>

\* the awaited fallback executor returned or threw
FallbackSettles ==
    /\ rpc = "fallback"
    /\ \E outcome \in ExecutorOutcomes(invoked[Len(invoked)].fn, rintent, rcontext) :
          IF "throws" \in DOMAIN outcome
          THEN Settle(OuterCatch(outcome.throws), rintent, Ended(invoked, outcome))
          ELSE Settle(Resolved(FallbackResponse(outcome.returns, roptions)), rintent,
                      Ended(invoked, outcome))
    /\ UNCHANGED <<actionExecutors, rcontext, roptions>>
    /\ UNCHANGED <<nluVars, providerVars, appVars>>

\* the call of routeIntent has been handed back
HandBackRoute ==
    /\ rpc' = "idle"
    /\ rintent' = Null
    /\ rcontext' = Undefined
    /\ roptions' = Null
    /\ rindex' = 0
    /\ invoked' = <<>>
    /\ response' = Null
    /\ UNCHANGED actionExecutors

\* The caller has the response; the call's locals are gone.
RouteReturned ==
    /\ rpc = "done"
    /\ HandBackRoute
    /\ UNCHANGED <<nluVars, providerVars, appVars>>

\* mutant: a name that has an executor keeps it
AssignOnce(registry, action, executor) ==
    [ key \in DOMAIN registry \cup {action} |->
        IF key \in DOMAIN registry THEN registry[key] ELSE executor ]

\* the registry after actionExecutors[action] = executor
Assign(registry, action, executor) ==
    [ key \in DOMAIN registry \cup {action} |->
        IF key = action THEN executor ELSE registry[key] ]

\* registerExecutor(action, executor) with an executor of the application
registerExecutor(action) ==
    /\ actionExecutors' = Assign(actionExecutors, action, "customExecutor")
    /\ UNCHANGED <<rpc, rintent, rcontext, roptions, rindex, invoked, response>>
    /\ UNCHANGED <<nluVars, providerVars, appVars>>

InitRouter ==
    /\ options = DefaultOptions
    /\ NluInit
    /\ RouterInit
    /\ ProviderInit
    /\ AppInit

NextRouter ==
    \/ \E intent \in RouterIntents, context \in RouterContexts,
          opts \in RouterOptionSets : RouteIntent(intent, context, opts)
    \/ MiddlewareSettles
    \/ ExecutorSettles
    \/ FallbackSettles
    \/ RouteReturned
    \/ \E action \in RegistrableActions : registerExecutor(action)

SpecRouter == InitRouter /\ [][NextRouter]_vars

(***************************************************************************)
(* IntentJS.process(input, context): parseIntent on the instance's own     *)
(* NaturalLanguageUnderstanding, then routeIntent without options.         *)
(***************************************************************************)
\* the slot of the call of parseIntent that process makes
ProcessCall == CHOOSE c \in Calls : \A d \in Calls : c <= d

\* !parseResult.success || !parseResult.intent
ParseFailed(parseResult) ==
    \/ parseResult = Null
    \/ ~parseResult.success
    \/ "intent" \notin DOMAIN parseResult

\* parseResult.error || 'Failed to parse intent'
ParseFailedResult(parseResult) ==
    [ success |-> FALSE,
      error |-> IF "error" \in DOMAIN parseResult THEN parseResult.error
                ELSE << "Failed to parse intent" >> ]

\* mutant: the pipeline reports success whenever the intent was parsed
ProcessResultOptimistic(parseResult, executionResult) ==
    [ success |-> TRUE, intent |-> parseResult.intent, execution |-> executionResult ]

\* the value process returns after routing; error is undefined (absent)
\* unless routing failed
ProcessResult(parseResult, executionResult) ==
    IF executionResult.success
    THEN [ success |-> TRUE, intent |-> parseResult.intent, execution |-> executionResult ]
    ELSE [ success |-> FALSE, intent |-> parseResult.intent, execution |-> executionResult,
           error |-> executionResult.message ]

\* catch (error) of process: error.message || 'Unknown error'
ProcessCatch(error) ==
    IF error = Null
    THEN Rejected(NullTypeError)
    ELSE Resolved([ success |-> FALSE, error |-> OrElse(error, "message", "Unknown error") ])

\* process is called; parseIntent runs to its first await or return
Process(input) ==
    /\ ppc = "idle"
    /\ Serial
    /\ rpc = "idle"
    /\ Len(appended) < MaxPushed
    /\ ppc' = "parsing"
    /\ EnterParseIntent(ProcessCall, input, {})
    /\ UNCHANGED <<pparsed, presult>>
    /\ UNCHANGED <<routerVars, providerVars, registryVars, chainVars>>

\* the awaited promise of parseIntent has settled: process returns the
\* failure, or calls routeIntent(parseResult.intent, context?.executor)
ProcessParsed ==
    /\ ppc = "parsing"
    /\ pc[ProcessCall] = "done"
    /\ LET parseResult == result[ProcessCall]
       IN  /\ pparsed' = parseResult
           /\ IF "rejected" \in DOMAIN parseResult
              THEN /\ ppc' = "done"
                   /\ presult' = ProcessCatch(parseResult.rejected)
                   /\ UNCHANGED routerVars
              ELSE IF ParseFailed(parseResult)
              THEN /\ ppc' = "done"
                   /\ presult' = Resolved(ParseFailedResult(parseResult))
                   /\ UNCHANGED routerVars
              ELSE /\ ppc' = "routing"
                   /\ presult' = presult
                   /\ EnterRouteIntent(parseResult.intent, Undefined, << >>)
    /\ UNCHANGED <<nluVars, providerVars, registryVars, chainVars>>

\* the awaited promise of routeIntent has settled
ProcessRouted ==
    /\ ppc = "routing"
    /\ rpc = "done"
    /\ ppc' = "done"
    /\ presult' = IF "rejected" \in DOMAIN response
                  THEN ProcessCatch(response.rejected)
                  ELSE Resolved(ProcessResult(pparsed, response.resolved))
    /\ UNCHANGED pparsed
    /\ UNCHANGED <<nluVars, routerVars, providerVars, registryVars, chainVars>>

\* The caller has the result of process; the locals of the calls are gone.
ProcessReturned ==
    /\ ppc = "done"
    /\ ppc' = "idle"
    /\ pparsed' = Null
    /\ presult' = Null
    /\ HandBack(ProcessCall)
    /\ HandBackRoute
    /\ UNCHANGED <<providerVars, registryVars, chainVars>>

InitProcess ==
    /\ options \in FairOptionSets
    /\ NluInit
    /\ RouterInit
    /\ ProviderInit
    /\ AppInit

NextProcess ==
    \/ \E input \in Inputs : Process(input)
    \/ \E resp \in LLMResponses : ModelError(ProcessCall, resp)
    \/ \E resp \in LLMResponses : DecodeFailure(ProcessCall, resp)
    \/ \E resp \in LLMResponses : LowConfidence(ProcessCall, resp)
    \/ \E resp \in LLMResponses : Success(ProcessCall, resp)
    \/ ModelThrows(ProcessCall)
    \/ ProcessParsed
    \/ ExecutorSettles
    \/ ProcessRouted
    \/ ProcessReturned

SpecProcess == InitProcess /\ [][NextProcess]_vars

(***************************************************************************)
(* The registry as the application uses it: registerExecutor with two      *)
(* executors of its own, also while a call of routeIntent is under way,    *)
(* and getExecutors.                                                       *)
(***************************************************************************)
ApplicationExecutors == {"customExecutor", "otherExecutor"}

RegistryActions == {"dance", "greet"}

RegistryIntents == { [action |-> "dance"], [action |-> "greet"] }

\* options with up to MaxMiddleware logging middleware, with and without a fallback
RegistryOptionSets ==
    LET lists == { [i \in 1..k |-> "logging"] : k \in 0..MaxMiddleware }
    IN  [ middleware : lists ] \cup [ middleware : lists, fallbackAction : {"greet"} ]

\* registerExecutor(action, executor), at any time
RecordedRegisterExecutor(action, executor) ==
    /\ Len(registrations) < MaxRegistrations
    /\ actionExecutors' = Assign(actionExecutors, action, executor)
    /\ registrations' = Append(registrations,
                               [action |-> action, executor |-> executor, during |-> rpc])
    /\ UNCHANGED <<snapshot, chainVars, processVars>>
    /\ UNCHANGED <<rpc, rintent, rcontext, roptions, rindex, invoked, response>>
    /\ UNCHANGED <<nluVars, providerVars>>

\* getExecutors(): { ...actionExecutors }, a new object with the own properties
getExecutors ==
    /\ snapshot' = [key \in DOMAIN actionExecutors |-> actionExecutors[key]]
    /\ UNCHANGED <<registrations, chainVars, processVars>>
    /\ UNCHANGED <<nluVars, routerVars, providerVars>>

InitRegistry ==
    /\ options = DefaultOptions
    /\ NluInit
    /\ RouterInit
    /\ ProviderInit
    /\ AppInit

NextRegistry ==
    \/ \E intent \in RegistryIntents, opts \in RegistryOptionSets :
          RouteIntent(intent, Undefined, opts)
    \/ MiddlewareSettles
    \/ ExecutorSettles
    \/ FallbackSettles
    \/ RouteReturned
    \/ \E action \in RegistryActions, executor \in ApplicationExecutors :
          RecordedRegisterExecutor(action, executor)
    \/ getExecutors

SpecRegistry == InitRegistry /\ [][NextRegistry]_vars

(***************************************************************************)
(* executeChain(intents, context).                                         *)
(***************************************************************************)
ChainIntents ==
    { [action |-> "greet"],
      [action |-> "search"],
      [action |-> "dance"],
      [action |-> "unknown"],
      [action |-> "toString"],
      [action |-> "__proto__"] }

ChainLists == UNION { [1..k -> ChainIntents] : k \in 0..MaxChain }

\* the registries executeChain runs on: the one of the module, and the one
\* after registerExecutor('dance', executor of the application)
ChainRegistries ==
    { DefaultExecutors, Assign(DefaultExecutors, "dance", "customExecutor") }

\* the entry for an intent without executor
NoExecutorEntry(intent) ==
    [success |-> FALSE, error |-> << "No executor found for action: ", intent.action >>]

\* The loop from position i on, up to the first intent that has an executor
\* (actionExecutors[intent.action] is truthy) or to the end of the list.
RECURSIVE ChainAdvance(_, _, _)
ChainAdvance(intents, i, results) ==
    IF i > Len(intents) THEN [next |-> i, results |-> results]
    ELSE IF Get(actionExecutors, intents[i].action) = {}
    THEN ChainAdvance(intents, i + 1, Append(results, NoExecutorEntry(intents[i])))
    ELSE [next |-> i, results |-> results]

\* From position i on to the next await, to the return or to the throw of a
\* call of something that is not a function.
ChainContinue(intents, i, results, events) ==
    LET at == ChainAdvance(intents, i, results)
    IN  /\ cresults' = at.results
        /\ IF at.next > Len(intents)
           THEN /\ cpc' = "done"
                /\ cindex' = cindex
                /\ cevents' = events
                /\ cresponse' = Resolved(at.results)
           ELSE LET fn == CHOOSE f \in Get(actionExecutors, intents[at.next].action) : TRUE
                IN  IF IsCallable(fn)
                    THEN /\ cpc' = "executing"
                         /\ cindex' = at.next
                         /\ cevents' = Append(events, [starts |-> at.next, fn |-> fn])
                         /\ cresponse' = cresponse
                    ELSE /\ cpc' = "done"
                         /\ cindex' = at.next
                         /\ cevents' = events
                         /\ cresponse' = Rejected([message |-> "executor is not a function"])

\* executeChain is called; it runs to its first await or to its end
ExecuteChain(intents) ==
    /\ cpc = "idle"
    /\ cintents' = intents
    /\ ChainContinue(intents, 1, <<>>, <<>>)
    /\ UNCHANGED <<nluVars, routerVars, providerVars, registryVars, processVars>>

\* the awaited handler returned or threw; nothing in executeChain catches
ChainHandlerSettles ==
    /\ cpc = "executing"
    /\ \E outcome \in ExecutorOutcomes(cevents[Len(cevents)].fn, cintents[cindex], Undefined) :
          IF "throws" \in DOMAIN outcome
          THEN /\ cpc' = "done"
               /\ cresponse' = Rejected(outcome.throws)
               /\ cevents' = Append(cevents, [ends |-> cindex])
               /\ UNCHANGED <<cindex, cresults>>
          ELSE ChainContinue(cintents, cindex + 1, Append(cresults, outcome.returns),
                             Append(cevents, [ends |-> cindex]))
    /\ UNCHANGED cintents
    /\ UNCHANGED <<nluVars, routerVars, providerVars, registryVars, processVars>>

\* the caller has the results
ChainReturned ==
    /\ cpc = "done"
    /\ cpc' = "idle"
    /\ cintents' = <<>>
    /\ cindex' = 0
    /\ cresults' = <<>>
    /\ cevents' = <<>>
    /\ cresponse' = Null
    /\ UNCHANGED <<nluVars, routerVars, providerVars, registryVars, processVars>>

InitChain ==
    /\ options = DefaultOptions
    /\ NluInit
    /\ actionExecutors \in ChainRegistries
    /\ rpc = "idle"
    /\ rintent = Null
    /\ rcontext = Undefined
    /\ roptions = Null
    /\ rindex = 0
    /\ invoked = <<>>
    /\ response = Null
    /\ ProviderInit
    /\ AppInit

NextChain ==
    \/ \E intents \in ChainLists : ExecuteChain(intents)
    \/ ChainHandlerSettles
    \/ ChainReturned

SpecChain == InitChain /\ [][NextChain]_vars

(***************************************************************************)
(* Vocabulary of the properties.                                           *)
(***************************************************************************)
Done(c) == pc[c] = "done"

Budget == options.maxRetries + 1

\* the latest call of generate resolved with text and no error
GotText(c) ==
    "content" \in DOMAIN lastResponse[c] /\ "error" \notin DOMAIN lastResponse[c]

\* the latest call of generate resolved with an error
GotError(c) == "error" \in DOMAIN lastResponse[c]

\* texts that are malformed JSON or hold no object with a non-empty action
UndecodableTexts ==
    { "not json", "null", "{\"target\":\"sales\"}", "{\"action\":\"\",\"confidence\":0.9}" }

GotUndecodable(c) == GotText(c) /\ lastResponse[c].content \in UndecodableTexts

\* the object the latest text holds, when it decodes
RawIntent(c) == JSONParse(lastResponse[c].content).value

GotIntent(c) == GotText(c) /\ lastResponse[c].content \notin UndecodableTexts

\* the confidence of the decoded intent: the raw value brought into [0,1]
DecodedConfidence(c) ==
    LET raw == RawIntent(c).confidence
    IN  IF raw < 0 THEN 0 ELSE IF raw > 100 THEN 100 ELSE raw

GotLowConfidence(c) ==
    /\ GotIntent(c)
    /\ "confidence" \in DOMAIN RawIntent(c)
    /\ DecodedConfidence(c) < options.minConfidence

IsFailure(r) ==
    /\ "success" \in DOMAIN r
    /\ ~r.success
    /\ "error" \in DOMAIN r
    /\ "intent" \notin DOMAIN r

IsSuccess(r) ==
    /\ "success" \in DOMAIN r
    /\ r.success
    /\ "intent" \in DOMAIN r
    /\ "error" \notin DOMAIN r

IsSensitiveFailure(r) ==
    IsFailure(r) /\ r.error = <<"Input contains sensitive content">>

IsDecodeFailure(r) ==
    IsFailure(r) /\ r.error[1] \in
        { "Failed to parse intent: ",
          "Failed to parse intent: Missing required \"action\" field in intent" }

IsLowConfidenceFailure(r) ==
    /\ IsFailure(r)
    /\ r.error[1] = "Low confidence intent ("
    /\ "correctionSuggestion" \in DOMAIN r
    /\ r.correctionSuggestion = "Can you rephrase or clarify your command?"

\* s is a non-empty suffix of t
IsNonEmptySuffix(s, t) ==
    /\ 1 <= Len(s)
    /\ Len(s) <= Len(t)
    /\ s = SubSeq(t, Len(t) - Len(s) + 1, Len(t))

(***************************************************************************)
(* C1.  Retry budget: with maxRetries = k >= 0, whatever the model         *)
(* answers, a parseIntent call makes at most k + 1 calls of generate.      *)
(***************************************************************************)
C1_RetryBudget == \A c \in Calls : invocations[c] <= Budget

\* a call that used a retry and spent the whole budget
C1_Witness ==
    \E c \in Calls : Done(c) /\ options.maxRetries >= 1 /\ invocations[c] = Budget

(***************************************************************************)
(* C2.  A call whose normalized input matches the sensitive-content        *)
(* pattern returns the SensitiveContent failure on its first attempt,      *)
(* without any call of generate and without retry, whatever maxRetries,    *)
(* retryOnFailure and the history are.                                     *)
(***************************************************************************)
C2_SensitiveRejected ==
    \A c \in Calls :
        (pc[c] # "idle" /\ hasSensitiveContent(normalizeInput(callInput[c]))) =>
            /\ Done(c)
            /\ IsSensitiveFailure(result[c])
            /\ invocations[c] = 0
            /\ attempts[c] = 1

\* an input that is sensitive only once normalized, rejected with retries
\* configured and a non-empty history
C2_Witness ==
    \E c \in Calls :
        /\ Done(c)
        /\ hasSensitiveContent(normalizeInput(callInput[c]))
        /\ ~hasSensitiveContent(callInput[c])
        /\ IsSensitiveFailure(result[c])
        /\ options.maxRetries >= 1
        /\ options.retryOnFailure
        /\ history # <<>>

(***************************************************************************)
(* C3.  Model errors are retried: a call returns after generate reported   *)
(* an error only when its retry budget is exhausted (k + 1 calls of        *)
(* generate have been made).                                               *)
(***************************************************************************)
C3_ModelErrorRetried ==
    \A c \in Calls : (Done(c) /\ GotError(c)) => invocations[c] = Budget

(***************************************************************************)
(* C4.  Decode failures are retried: a call returns after a text that is   *)
(* malformed or lacks a non-empty action only when k + 1 calls of generate *)
(* have been made, and then it returns a failure whose rawLLMResponse is   *)
(* the text of that last attempt.                                          *)
(***************************************************************************)
C4_DecodeFailureRetried ==
    \A c \in Calls :
        (Done(c) /\ GotUndecodable(c)) =>
            /\ invocations[c] = Budget
            /\ IsDecodeFailure(result[c])
            /\ "rawLLMResponse" \in DOMAIN result[c]
            /\ result[c].rawLLMResponse = lastResponse[c].content
            /\ result[c].retries = options.maxRetries

\* a call that retried and whose last attempt did not decode either
C4_Witness ==
    \E c \in Calls :
        /\ Done(c)
        /\ GotUndecodable(c)
        /\ options.maxRetries >= 1
        /\ invocations[c] = Budget
        /\ result[c].rawLLMResponse = lastResponse[c].content

C6_ConfidenceClamped ==
    /\ \A c \in Calls :
        (Done(c) /\ IsSuccess(result[c]) /\ GotIntent(c)
                 /\ "confidence" \in DOMAIN RawIntent(c)) =>
            /\ "confidence" \in DOMAIN result[c].intent
            /\ result[c].intent.confidence = DecodedConfidence(c)
            /\ result[c].intent.confidence >= 0
            /\ result[c].intent.confidence <= 100
    /\ \A i \in 1..Len(history) :
        "confidence" \in DOMAIN history[i].intent =>
            /\ history[i].intent.confidence >= 0
            /\ history[i].intent.confidence <= 100

\* a raw confidence below 0 accepted (minConfidence 0) and stored as 0
C6_Witness ==
    \E c \in Calls :
        /\ Done(c)
        /\ IsSuccess(result[c])
        /\ GotIntent(c)
        /\ "confidence" \in DOMAIN RawIntent(c)
        /\ RawIntent(c).confidence < 0
        /\ result[c].intent.confidence = 0
        /\ history # <<>>
        /\ history[Len(history)].intent = result[c].intent


(***************************************************************************)
(* C7.  History bound: for every historyLimit N >= 0 the history holds at  *)
(* most N items, whatever calls of parseIntent and clearHistory were made. *)
(***************************************************************************)
C7_HistoryWithinLimit == Len(history) <= options.historyLimit

StepOf(c) ==
    \/ pc'[c] # pc[c]
    \/ invocations'[c] # invocations[c]
    \/ lastResponse'[c] # lastResponse[c]

Returns(c) == pc[c] # "done" /\ pc'[c] = "done"

\* history' is history with exactly item appended, up to eviction of the oldest
AppendsOne(item) ==
    /\ appended' = Append(appended, item)
    /\ IsNonEmptySuffix(history', Append(history, item))

HistoryUntouched == history' = history /\ appended' = appended

ReturnedItem(c) == HistoryItem(normalizeInput(callInput[c]), result'[c].intent)

C9_Original ==
    [][ \A c \in Calls :
            StepOf(c) =>
                IF Returns(c) /\ IsSuccess(result'[c])
                THEN AppendsOne(ReturnedItem(c))
                ELSE HistoryUntouched ]_vars

\* C9 as amended: the append happens only with keepHistory enabled (the
\* default); with keepHistory disabled no call changes the history.
C9_HistoryOnlyOnSuccess ==
    [][ \A c \in Calls :
            StepOf(c) =>
                IF Returns(c) /\ IsSuccess(result'[c]) /\ options.keepHistory
                THEN AppendsOne(ReturnedItem(c))
                ELSE HistoryUntouched ]_vars

\* a call that succeeded after a retry, its item the newest of the history
C9_Witness ==
    \E c \in Calls :
        /\ Done(c)
        /\ IsSuccess(result[c])
        /\ result[c].retries >= 1
        /\ options.keepHistory
        /\ history # <<>>
        /\ history[Len(history)] =
               HistoryItem(normalizeInput(callInput[c]), result[c].intent)
        /\ normalizeInput(callInput[c]) # callInput[c]

(***************************************************************************)
(* C10.  ParseResult is a discriminated result: every value parseIntent    *)
(* returns has success = true, an intent with a non-empty action and no    *)
(* error, or success = false, an error and no intent.                      *)
(***************************************************************************)
C10_Discriminated ==
    \A c \in Calls :
        Done(c) =>
            \/ /\ IsSuccess(result[c])
               /\ "action" \in DOMAIN result[c].intent
               /\ result[c].intent.action # ""
            \/ /\ IsFailure(result[c])
               /\ result[c].error # <<>>

\* a failure returned although an intent had been decoded
C10_Witness ==
    \E c \in Calls :
        /\ Done(c)
        /\ IsFailure(result[c])
        /\ GotLowConfidence(c)
        /\ "rawLLMResponse" \in DOMAIN result[c]


(***************************************************************************)
(* C11.  Concurrent calls on one instance: when a call completes with an   *)
(* acceptable intent while another call is in flight or not yet handed     *)
(* back, its item is appended exactly once at the end of the history (up   *)
(* to eviction of the oldest) and the other call stays where it is; so the *)
(* items of two overlapping successful calls are both in the history, in   *)
(* the order in which their model responses completed, not in the order in *)
(* which the calls were started.                                           *)
(***************************************************************************)
\* h without the items beyond the limit, the newest kept
KeepNewest(h) ==
    IF options.historyLimit > 0 /\ Len(h) > options.historyLimit
    THEN SubSeq(h, Len(h) - options.historyLimit + 1, Len(h))
    ELSE h

C11_CompletionOrder ==
    [][ \A c, d \in Calls :
            ( /\ c # d
              /\ pc[c] = "awaiting"
              /\ pc[d] # "idle"
              /\ Returns(c)
              /\ IsSuccess(result'[c])
              /\ options.keepHistory )
            => /\ history' = KeepNewest(Append(history, ReturnedItem(c)))
               /\ pc'[d] = pc[d]
               /\ result'[d] = result[d] ]_vars

\* call 1 was started before call 2 and completed after it
C11_Witness ==
    /\ started = <<1, 2>>
    /\ Done(1) /\ Done(2)
    /\ IsSuccess(result[1]) /\ IsSuccess(result[2])
    /\ options.keepHistory
    /\ Len(history) = 2
    /\ history[1] = HistoryItem(normalizeInput(callInput[2]), result[2].intent)
    /\ history[2] = HistoryItem(normalizeInput(callInput[1]), result[1].intent)
    /\ history[1] # history[2]

(***************************************************************************)
(* C12.  No cancellation: clearHistory leaves the calls that are awaiting  *)
(* the model where they are, and when the response of such a call then     *)
(* decodes to an acceptable intent its item is appended on arrival; the    *)
(* history becomes non-empty after clearHistory although no call was       *)
(* started since.                                                          *)
(***************************************************************************)
\* the latest response decodes to an intent at or above the threshold
GotAcceptable(c) == GotIntent(c) /\ ~GotLowConfidence(c)

\* a step of clearHistory that changes something
Clears == history' = <<>> /\ cleared' /\ (~cleared \/ history # <<>>)

C12_NoCancellation ==
    [][ /\ Clears =>
              /\ pc' = pc
              /\ invocations' = invocations
              /\ result' = result
        /\ \A c \in Calls :
              ( /\ cleared
                /\ pc[c] = "awaiting"
                /\ StepOf(c)
                /\ GotAcceptable(c)'
                /\ options.keepHistory )
              => /\ cleared'
                 /\ history' # <<>>
                 /\ history'[Len(history')] = ReturnedItem(c) ]_vars

\* the history is not empty although it was cleared and no call was started since
C12_Witness ==
    /\ cleared
    /\ history # <<>>
    /\ appended = history
    /\ \E c \in Calls :
          /\ Done(c)
          /\ IsSuccess(result[c])
          /\ history[Len(history)] =
                 HistoryItem(normalizeInput(callInput[c]), result[c].intent)


(***************************************************************************)
(* Vocabulary of the router's properties.                                  *)
(***************************************************************************)
\* call i of routeIntent's log was of a middleware function and returned null
RejectedAt(i) ==
    /\ invoked[i].role = "middleware"
    /\ "outcome" \in DOMAIN invoked[i]
    /\ invoked[i].outcome = [returns |-> Null]

\* some function routeIntent called has thrown
SomethingThrew ==
    \E i \in DOMAIN invoked :
        "outcome" \in DOMAIN invoked[i] /\ "throws" \in DOMAIN invoked[i].outcome

\* the positions of the log at which a function was called in the given role
CallsAs(log, role) == { i \in DOMAIN log : log[i].role = role }

(***************************************************************************)
(* C13.  Middleware rejection short-circuits routing.  As claimed: if      *)
(* middleware i returns the rejection sentinel, no middleware after i and  *)
(* no handler or fallback handler is invoked, and routeIntent returns      *)
(* {success: false, message: "rejected by middleware"}.                    *)
(***************************************************************************)
C13_Original ==
    \A i \in DOMAIN invoked :
        RejectedAt(i) =>
            /\ i = Len(invoked)
            /\ rpc = "done"
            /\ response =
                 Resolved([success |-> FALSE, message |-> << "rejected by middleware" >>])

\* C13 as amended: the message is "Intent rejected by middleware".
C13_RejectionShortCircuits ==
    \A i \in DOMAIN invoked :
        RejectedAt(i) =>
            /\ i = Len(invoked)
            /\ rpc = "done"
            /\ response =
                 Resolved([ success |-> FALSE,
                            message |-> << "Intent rejected by middleware" >> ])

\* the first of two middleware functions rejected an intent the first had
\* been given, with a handler registered for its action
C13_Witness ==
    /\ rpc = "done"
    /\ Len(roptions.middleware) = 2
    /\ Len(invoked) = 1
    /\ RejectedAt(1)
    /\ invoked[1].intent.action \in DOMAIN actionExecutors
    /\ "fallbackAction" \in DOMAIN roptions
    /\ ~response.resolved.success

(***************************************************************************)
(* C14.  Unknown action: when the post-middleware action has no registered *)
(* handler, and no fallback is configured or the configured fallback name  *)
(* is itself unregistered, routeIntent invokes no handler and returns      *)
(* {success: false, message: "unknown action: <action>"}.                  *)
(***************************************************************************)
\* The step of routeIntent that looks the executor up: the call was made
\* without middleware, or the last middleware function returned an intent.
Dispatches ==
    \/ /\ rpc = "idle"
       /\ rpc' \in {"fallback", "executor", "done"}
    \/ /\ rpc = "middleware"
       /\ rindex = Len(roptions.middleware)
       /\ rpc' \in {"fallback", "executor", "done"}
       /\ "returns" \in DOMAIN invoked'[rindex].outcome
       /\ invoked'[rindex].outcome.returns # Null

Registered(action) == action \in DOMAIN actionExecutors

NoUsableFallback(opts) ==
    "fallbackAction" \in DOMAIN opts => ~Registered(opts.fallbackAction)

C14_UnknownAction ==
    [][ ( Dispatches /\ ~Registered(rintent'.action) /\ NoUsableFallback(roptions') )
        => /\ rpc' = "done"
           /\ CallsAs(invoked', "executor") = {}
           /\ CallsAs(invoked', "fallback") = {}
           /\ response' =
                Resolved([ success |-> FALSE,
                           message |-> << "unknown action: ", rintent'.action >> ]) ]_vars

(***************************************************************************)
(* C15.  Fallback dispatch: when the post-middleware action has no         *)
(* registered handler and fallbackAction names a registered handler, that  *)
(* handler is invoked exactly once with the post-middleware intent and the *)
(* context, and when it returns a value the response is success: true with *)
(* that value as data and a message naming the fallback action; when the   *)
(* action has a registered handler the fallback handler is never invoked.  *)
(***************************************************************************)
C15_FallbackDispatch ==
    [][ /\ ( Dispatches /\ ~Registered(rintent'.action) /\ ~NoUsableFallback(roptions')
             /\ "fallbackAction" \in DOMAIN roptions' )
           => /\ rpc' = "fallback"
              /\ Cardinality(CallsAs(invoked', "fallback")) = 1
              /\ CallsAs(invoked', "executor") = {}
              /\ LET call == invoked'[Len(invoked')]
                 IN  /\ call.role = "fallback"
                     /\ call.fn = actionExecutors[roptions'.fallbackAction]
                     /\ call.intent = rintent'
                     /\ call.context = rcontext'
        /\ ( Dispatches /\ Registered(rintent'.action) )
           => /\ rpc' = "executor"
              /\ CallsAs(invoked', "fallback") = {}
        /\ ( rpc = "fallback" /\ rpc' = "done"
             /\ "returns" \in DOMAIN invoked'[Len(invoked')].outcome )
           => /\ invoked' = Ended(invoked, invoked'[Len(invoked')].outcome)
              /\ response' =
                   Resolved([ success |-> TRUE,
                              data |-> invoked'[Len(invoked')].outcome.returns,
                              message |-> << "Executed fallback action: ",
                                             roptions.fallbackAction >> ])
        /\ ( rpc = "executor" => CallsAs(invoked', "fallback") = {} ) ]_vars

(***************************************************************************)
(* C16.  The router never propagates a fault: whatever the middleware      *)
(* functions, the handler and the fallback handler do (each returns a      *)
(* value or throws an Error), the promise of routeIntent resolves to a     *)
(* response and never rejects; whenever one of them has thrown, the        *)
(* response has success: false and a message.                              *)
(***************************************************************************)
C16_NeverPropagates ==
    rpc = "done" =>
        /\ "resolved" \in DOMAIN response
        /\ "success" \in DOMAIN response.resolved
        /\ SomethingThrew =>
              /\ ~response.resolved.success
              /\ "message" \in DOMAIN response.resolved
              /\ response.resolved.message # <<>>

\* the fallback handler threw after a middleware function had changed the intent
C16_Witness ==
    /\ rpc = "done"
    /\ CallsAs(invoked, "fallback") # {}
    /\ CallsAs(invoked, "middleware") # {}
    /\ "throws" \in DOMAIN invoked[Len(invoked)].outcome
    /\ invoked[1].intent # rintent
    /\ response = Resolved([success |-> FALSE, message |-> << "Router error: ", "boom" >>])


(***************************************************************************)
(* C17.  Unexpected faults are caught at the resolution boundary: when the *)
(* model capability throws instead of returning, parseIntent does not      *)
(* reject; it returns a success: false result with an error message, and   *)
(* the history is unchanged.                                               *)
(***************************************************************************)
\* the await of generate of call c ends in this step, with an Error thrown
ModelThrew(c) ==
    /\ pc[c] = "awaiting"
    /\ StepOf(c)
    /\ "threw" \in DOMAIN lastResponse'[c]

C17_FaultCaught ==
    [][ \A c \in Calls :
            ModelThrew(c) =>
                /\ Returns(c)
                /\ IsFailure(result'[c])
                /\ result'[c].error = << "Unexpected error: ", lastResponse'[c].threw >>
                /\ HistoryUntouched ]_vars

\* the model threw on a retry of a call made with items in the history
C17_Witness ==
    \E c \in Calls :
        /\ Done(c)
        /\ "threw" \in DOMAIN lastResponse[c]
        /\ IsFailure(result[c])
        /\ invocations[c] >= 2
        /\ history # <<>>

(***************************************************************************)
(* C18.  Determinism with the stub: two calls of parseIntent on instances  *)
(* with the stub provider and the same configuration, given the same input *)
(* and context, return the same success flag, the same intent field for    *)
(* field and the same retries.  (The prompt of an instance with the default *)
(* prompt options does not depend on the history, so this holds whatever   *)
(* the history each call starts from, the empty one included.)             *)
(***************************************************************************)
RetriesOf(r) == IF "retries" \in DOMAIN r THEN {r.retries} ELSE {}

IntentOf(r) == IF "intent" \in DOMAIN r THEN {r.intent} ELSE {}

C18_StubDeterminism ==
    \A c, d \in Calls :
        ( Done(c) /\ Done(d) /\ callInput[c] = callInput[d] ) =>
            /\ result[c].success = result[d].success
            /\ IntentOf(result[c]) = IntentOf(result[d])
            /\ RetriesOf(result[c]) = RetriesOf(result[d])

\* two successful calls with the same input; the history was cleared between
\* them, so each started from the empty history
C18_Witness ==
    /\ Done(1) /\ Done(2)
    /\ callInput[1] = callInput[2]
    /\ IsSuccess(result[1]) /\ IsSuccess(result[2])
    /\ options.keepHistory
    /\ Len(appended) = 1
    /\ result[1].intent = result[2].intent
    /\ result[1].intent.action = "filter"

(***************************************************************************)
(* C19.  Scenario (stub, defaults): parseIntent("Show me sales from last   *)
(* month") returns success: true with the intent {action: "filter",        *)
(* target: "sales", params: {dateRange: "last_month"}, confidence: 0.95}   *)
(* and retries = 0, after exactly one model invocation.                    *)
(***************************************************************************)
\* minConfidence 0.6, maxRetries 1, retryOnFailure, no context
DefaultConfig ==
    /\ options.maxRetries = 1
    /\ options.retryOnFailure
    /\ options.minConfidence = DefaultMinConfidence
    /\ DOMAIN options.defaultContext = {}

C19_ShowSalesScenario ==
    \A c \in Calls :
        ( Done(c) /\ callInput[c] = ShowSalesInput /\ DefaultConfig ) =>
            /\ IsSuccess(result[c])
            /\ result[c].intent =
                 [ action |-> "filter", target |-> "sales",
                   params |-> [dateRange |-> "last_month"], confidence |-> 95 ]
            /\ result[c].retries = 0
            /\ invocations[c] = 1

C19_Witness ==
    \E c \in Calls :
        /\ Done(c)
        /\ callInput[c] = ShowSalesInput
        /\ DefaultConfig
        /\ IsSuccess(result[c])
        /\ result[c].intent.confidence = 95
        /\ invocations[c] = 1

(***************************************************************************)
(* C20.  Scenario (stub, defaults): parseIntent("asdkjasd") matches no     *)
(* rule of the stub on either attempt, so the stub returns the fallback    *)
(* intent {action: "unknown", confidence: 0.4} both times and the result,  *)
(* after one retry (two model invocations), is a LowConfidence failure     *)
(* with the rephrase suggestion.                                           *)
(***************************************************************************)
C20_GibberishScenario ==
    \A c \in Calls :
        ( Done(c) /\ callInput[c] = GibberishInput /\ DefaultConfig ) =>
            /\ IsLowConfidenceFailure(result[c])
            /\ result[c].retries = 1
            /\ invocations[c] = 2
            /\ lastResponse[c].content = FallbackText(prompt[c])

(***************************************************************************)
(* Vocabulary of the properties of the prompt.                             *)
(***************************************************************************)
\* in this step call c builds a prompt and hands it to generate
Builds(c) == invocations'[c] = invocations[c] + 1

\* the properties of an object that may be undefined
PropertiesOf(x) == IF x = {} THEN EmptyObject ELSE CHOOSE v \in x : TRUE

\* the object that has, for every key of the call's context, the call's value,
\* and for every other key of the default, the default's value
CallSiteWins(default, call) ==
    [k \in DOMAIN default \cup DOMAIN call |->
        IF k \in DOMAIN call THEN call[k] ELSE default[k]]

\* the argument history of createDefaultIntentPrompt at the time of the step
HistoryGiven == IF options.keepHistory THEN {history} ELSE {}

(***************************************************************************)
(* C21.  Context merge: the prompt of every attempt is built from the      *)
(* context that has, for every key, the value of the call's context when   *)
(* the call supplies that key and the value of the instance's default      *)
(* context otherwise; updateDefaultContext puts its argument over the      *)
(* default in the same way and changes nothing else, so that it affects    *)
(* the prompts built later and only through the default.                   *)
(***************************************************************************)
C21_ContextMerge ==
    [][ /\ \A c \in Calls :
              Builds(c) =>
                 prompt'[c] =
                    createDefaultIntentPrompt(
                        JoinAtoms(normalizeInput(callInput'[c])),
                        { CallSiteWins(PropertiesOf(DefaultContext),
                                       PropertiesOf(callContext'[c])) },
                        HistoryGiven,
                        PromptOptions)
        /\ options' # options =>
              /\ \E u \in ContextUpdates :
                    options'.defaultContext = CallSiteWins(PropertiesOf(DefaultContext), u)
              /\ \A k \in DOMAIN options \ {"defaultContext"} :
                    k \in DOMAIN options' /\ options'[k] = options[k]
              /\ DOMAIN options' = DOMAIN options \cup {"defaultContext"}
              /\ prompt' = prompt
              /\ callContext' = callContext
              /\ history' = history
      ]_vars

\* a call that gave a page is awaiting the model on an instance whose default
\* context has another page, put there by updateDefaultContext, and actions
C21_Witness ==
    /\ pc[1] = "awaiting"
    /\ callContext[1] = { [page |-> "settings"] }
    /\ "defaultContext" \in DOMAIN options
    /\ options.defaultContext = Merge(ReportsContext, [page |-> "sales"])
    /\ prompt[1] =
          PromptHead \o "export csv" \o PromptAfterInput
          \o "\nCurrent context:\n- Current page: settings\n"
          \o "- Available actions: filter, sort, export\n\n\n"
          \o PromptTail

\* the n most recent items of h, oldest first
MostRecent(h, n) == SubSeq(h, Len(h) - n + 1, Len(h))

\* the context the prompt of call c is built from in this step
ContextGiven(c) == { MergedContext(callContext'[c]) }

\* the prompt for this input and context that has these history entries and
\* no others
PromptWithEntries(input, context, entries) ==
    PromptHead \o JoinAtoms(normalizeInput(input)) \o PromptAfterInput
    \o ( IF includeContext(PromptOptions)
         THEN ContextSection(CHOOSE x \in context : TRUE)
         ELSE "" )
    \o ( IF entries # <<>> THEN HistorySection(entries) ELSE "" )
    \o PromptTail

(***************************************************************************)
(* C22.  Prompt history window: with includeHistory enabled and a          *)
(* non-empty history, for every historyLimit L >= 0 the prompt contains    *)
(* exactly the min(L, |history|) most recent history entries, oldest       *)
(* first; with includeHistory disabled or an empty history it contains no  *)
(* history entries.                                                        *)
(***************************************************************************)
C22_HistoryWindow ==
    [][ \A c \in Calls :
          Builds(c) =>
             LET L == historyLimit(PromptOptions)
                 n == IF includeHistory(PromptOptions) /\ options.keepHistory
                      THEN Min(L, Len(history))
                      ELSE 0
             IN  prompt'[c] =
                    PromptWithEntries(callInput'[c], ContextGiven(c), MostRecent(history, n))
      ]_vars

\* a context was given: to the call, or to the instance as its default
ContextWasGiven(c) == callContext'[c] # {} \/ DefaultContext # {}

\* the section on the context in which a field has its line if it is in the
\* context and an absent field has nothing
FieldsPresentOnly(context) ==
    "\n"
    \o "Current context:\n"
    \o ( IF "page" \in DOMAIN context THEN "- Current page: " \o context.page \o "\n" ELSE "" )
    \o ( IF "availableActions" \in DOMAIN context
         THEN "- Available actions: " \o JoinWith(context.availableActions, ", ") \o "\n"
         ELSE "" )
    \o ( IF "availableTargets" \in DOMAIN context
         THEN "- Available targets: " \o JoinWith(context.availableTargets, ", ") \o "\n"
         ELSE "" )
    \o ( IF "appState" \in DOMAIN context
         THEN "- App state: " \o ObjectTextIndented(context.appState) \o "\n"
         ELSE "" )

\* the section on the history as the code puts it into the prompt
HistoryPart ==
    IF includeHistory(PromptOptions) /\ options.keepHistory /\ history # <<>>
    THEN HistorySection(limitedHistory(history, PromptOptions))
    ELSE ""

(***************************************************************************)
(* C23.  Prompt context section: the prompt has the section on the context *)
(* only if includeContext is true and a context was given, and in the      *)
(* section each of the four fields (current page, available actions,       *)
(* available targets, app state) has its line if and only if the field is  *)
(* in the context; an absent field contributes nothing, neither a          *)
(* placeholder value nor a blank entry.                                    *)
(***************************************************************************)
C23_ContextSection ==
    [][ \A c \in Calls :
          Builds(c) =>
             prompt'[c] =
                PromptHead \o JoinAtoms(normalizeInput(callInput'[c])) \o PromptAfterInput
                \o ( IF includeContext(PromptOptions) /\ ContextWasGiven(c)
                     THEN FieldsPresentOnly(MergedContext(callContext'[c]))
                     ELSE "" )
                \o HistoryPart
                \o PromptTail
      ]_vars

\* in this step call c hands a prompt to generate again: a retry
Retries(c) == Builds(c) /\ invocations[c] >= 1

(***************************************************************************)
(* C28.  Retries are not adaptive: within one call of parseIntent every    *)
(* model invocation receives the same prompt as the invocation before it,  *)
(* whatever calls of clearHistory and updateDefaultContext are made on the *)
(* instance between the attempts, with includeHistory enabled or not.      *)
(***************************************************************************)
C28_SamePromptOnRetry ==
    [][ \A c \in Calls : Retries(c) => prompt'[c] = prompt[c] ]_vars

(***************************************************************************)
(* C27.  Every ParseResult that parseIntent returns, a success or a        *)
(* failure of any kind, the SensitiveContent failure included, has a       *)
(* retries count and a processingTime.                                     *)
(***************************************************************************)
C27_ResultFields ==
    \A c \in Calls :
        Done(c) => {"retries", "processingTime"} \subseteq DOMAIN result[c]

\* the calls of middleware functions in the log
MiddlewareCalls == { j \in 1..Len(invoked) : invoked[j].role = "middleware" }

\* the call at j has returned an intent
ReturnedIntent(j) ==
    /\ "outcome" \in DOMAIN invoked[j]
    /\ "returns" \in DOMAIN invoked[j].outcome
    /\ invoked[j].outcome.returns # Null

\* every middleware function of the list has been called and has returned an intent
ChainPassed ==
    /\ Cardinality(MiddlewareCalls) = Len(roptions.middleware)
    /\ \A j \in MiddlewareCalls : ReturnedIntent(j)

(***************************************************************************)
(* C29.  Middleware chain composition: the middleware functions are called *)
(* in list order, each once; the first is given the caller's intent and    *)
(* middleware j the intent that middleware j-1 returned; when none rejects *)
(* all of them have run, the handler is the one registered under the       *)
(* action of the last middleware's output, and it is called with that      *)
(* intent, not with the caller's.                                          *)
(***************************************************************************)
C29_ChainComposition ==
    [][ /\ (rpc = "idle" /\ rpc' = "middleware") =>
              /\ invoked'[1].intent = rintent'
              /\ rintent' \in RouterIntents
        /\ rpc' # "idle" =>
              /\ \A j \in 1..Len(invoked') :
                    invoked'[j].role = "middleware" =>
                       /\ j <= Len(roptions'.middleware)
                       /\ invoked'[j].index = j
                       /\ invoked'[j].fn = roptions'.middleware[j]
                       /\ j > 1 =>
                             /\ "returns" \in DOMAIN invoked'[j - 1].outcome
                             /\ invoked'[j].intent = invoked'[j - 1].outcome.returns
              /\ \A j \in 1..Len(invoked') :
                    invoked'[j].role \in {"executor", "fallback"} =>
                       LET n == Len(roptions'.middleware)
                       IN  /\ j = n + 1
                           /\ \A i \in 1..n : invoked'[i].role = "middleware"
                           /\ n > 0 => invoked'[j].intent = invoked'[n].outcome.returns
                           /\ n = 0 => invoked'[j].intent = rintent'
                           /\ invoked'[j].role = "executor" =>
                                 invoked'[j].fn
                                    \in Get(actionExecutors', invoked'[j].intent.action)
      ]_vars

\* greet went through transform and logging and the handler registered for
\* dance was called with the transformed intent
C29_Witness ==
    /\ rpc = "done"
    /\ roptions.middleware = << "transform", "logging" >>
    /\ Len(invoked) = 3
    /\ invoked[1].intent = [action |-> "greet"]
    /\ invoked[2].intent = [action |-> "dance"]
    /\ invoked[3].role = "executor"
    /\ invoked[3].fn = "customExecutor"
    /\ invoked[3].intent = [action |-> "dance"]
    /\ ChainPassed

\* the text of a message given in pieces is not empty
NonEmptyText(pieces) == JoinAtoms(pieces) # ""

\* every failure parseIntent has returned has an error message, and a result
\* has the suggestion exactly if it is the LowConfidence failure
ParseFailuresHaveMessages ==
    \A c \in Calls :
        Done(c) =>
            /\ ~result[c].success =>
                  "error" \in DOMAIN result[c] /\ NonEmptyText(result[c].error)
            /\ "correctionSuggestion" \in DOMAIN result[c]
                  <=> (~result[c].success /\ GotLowConfidence(c))
            /\ "correctionSuggestion" \in DOMAIN result[c]
                  => result[c].error[1] = "Low confidence intent ("

\* every failure routeIntent has returned has a message
RouteFailuresHaveMessages ==
    (rpc = "done" /\ "resolved" \in DOMAIN response /\ ~response.resolved.success) =>
        "message" \in DOMAIN response.resolved /\ NonEmptyText(response.resolved.message)

(***************************************************************************)
(* C26.  Failure messages: every success: false result of parseIntent has  *)
(* a non-empty error message and every success: false response of          *)
(* routeIntent has a non-empty message; a result of parseIntent has a      *)
(* correctionSuggestion if and only if it is a LowConfidence failure.      *)
(***************************************************************************)
C26_FailureMessages == ParseFailuresHaveMessages /\ RouteFailuresHaveMessages

(***************************************************************************)
(* Vocabulary of the provider properties.                                  *)
(***************************************************************************)
\* a call of generate on the stub has settled
StubSettled == gpc = "done" /\ gprovider = "mock"

\* a call of generate on a provider that talks HTTP has settled
LiveSettled == gpc = "done" /\ gprovider \in LiveProviders

\* rule k matches the text and no rule before it does
LowestMatch(k, text) ==
    /\ RegExpTest(patternResponses[k][1], text)
    /\ \A j \in 1..(k - 1) : ~RegExpTest(patternResponses[j][1], text)

\* content is the generic fallback: action "unknown" with confidence 0.4
IsGenericFallback(content) ==
    LET parsed == JSONParse(content)
    IN  /\ ~parsed.threw
        /\ Get(parsed.value, "action") = {"unknown"}
        /\ Get(parsed.value, "confidence") = {40}

\* the exchange of the settled call failed: fetch rejected (no Response was
\* stored) or the Response was not 2xx
ExchangeFailed == ghttp = Null \/ ~ghttp.ok

(***************************************************************************)
(* C30.  Stub first-match-wins: for every text given to                    *)
(* MockProvider.generate the promise resolves, the content is the canned   *)
(* response of the lowest-index rule whose pattern matches the text, it is *)
(* the generic unknown/0.4 fallback if and only if no rule matches, and    *)
(* the result has no error.                                                *)
(***************************************************************************)
C30_FirstMatchWins ==
    StubSettled =>
        /\ "resolved" \in DOMAIN gresult
        /\ "error" \notin DOMAIN gresult.resolved
        /\ \A k \in 1..Len(patternResponses) :
              LowestMatch(k, gprompt) => gresult.resolved.content = patternResponses[k][2]
        /\ IsGenericFallback(gresult.resolved.content)
              <=> \A k \in 1..Len(patternResponses) :
                     ~RegExpTest(patternResponses[k][1], gprompt)

\* a text that a later rule matches too got the response of the earlier rule
C30_Witness ==
    /\ StubSettled
    /\ gprompt = "export csv Go"
    /\ RegExpTest(patternResponses[6][1], gprompt)
    /\ LowestMatch(2, gprompt)
    /\ gresult = Resolved([content |-> patternResponses[2][2]])

(***************************************************************************)
(* C24.  The providers that talk HTTP never raise for expected failures:   *)
(* whatever the exchange brings (2xx with a body, non-2xx with a JSON      *)
(* error body, non-2xx with a body that does not parse, a fetch that       *)
(* rejects), the promise of generate resolves, and when fetch rejected or  *)
(* the status was not 2xx the result is exactly {content: "", error} with  *)
(* a non-empty error.                                                      *)
(***************************************************************************)
C24_NeverRaises ==
    LiveSettled =>
        /\ "resolved" \in DOMAIN gresult
        /\ ExchangeFailed =>
              /\ DOMAIN gresult.resolved = {"content", "error"}
              /\ gresult.resolved.content = ""
              /\ gresult.resolved.error # ""

\* a non-2xx Response whose body does not parse became {content: "", error}
C24_Witness ==
    /\ LiveSettled
    /\ ghttp # Null
    /\ ~ghttp.ok
    /\ ResponseJson(ghttp.body).threw
    /\ gresult = Resolved([content |-> "", error |-> "Unexpected token"])

(***************************************************************************)
(* C25.  Termination: when every call of generate is answered (with        *)
(* content, with an error, or by a throw), every call of parseIntent that  *)
(* awaits the model eventually returns a result, a success or a failure,   *)
(* for every maxRetries >= 0 and every sequence of answers.                *)
(***************************************************************************)
\* call c has returned a ParseResult: the Succeeded or the Failed state
Terminated(c) ==
    /\ pc[c] = "done"
    /\ result[c] # Null
    /\ result[c].success \in BOOLEAN

C25_Termination == \A c \in Calls : (pc[c] = "awaiting") ~> Terminated(c)

\* a call that used its whole retry budget, one retry at least, and returned
C25_Witness ==
    \E c \in Calls :
        /\ Terminated(c)
        /\ options.maxRetries >= 1
        /\ invocations[c] = options.maxRetries + 1
        /\ ~result[c].success

(***************************************************************************)
(* C32.  Threshold edge cases: the gate compares the clamped confidence    *)
(* strictly against minConfidence.  An attempt that decodes an intent      *)
(* whose confidence equals minConfidence, or that has no confidence, or    *)
(* whose raw confidence is above 1 while minConfidence <= 1, ends the call *)
(* with success on that attempt.                                           *)
(***************************************************************************)
\* the latest text of call c decodes to an intent on the accepting side of the edge
AtThresholdEdge(c) ==
    /\ GotIntent(c)
    /\ \/ "confidence" \notin DOMAIN RawIntent(c)
       \/ DecodedConfidence(c) = options.minConfidence
       \/ RawIntent(c).confidence > ConfOne /\ options.minConfidence <= ConfOne

C32_ThresholdEdges ==
    \A c \in Calls :
        AtThresholdEdge(c) =>
            /\ Done(c)
            /\ IsSuccess(result[c])
            /\ result[c].intent.action = RawIntent(c).action

\* a confidence equal to the default threshold was accepted
C32_Witness ==
    \E c \in Calls :
        /\ Done(c)
        /\ GotIntent(c)
        /\ "confidence" \in DOMAIN RawIntent(c)
        /\ RawIntent(c).confidence = DefaultMinConfidence
        /\ options.minConfidence = DefaultMinConfidence
        /\ IsSuccess(result[c])

(***************************************************************************)
(* C33.  Retries accounting: every result parseIntent returns after at     *)
(* least one call of generate has a retries field that is the number of    *)
(* calls of generate the call made, minus one.                             *)
(***************************************************************************)
C33_RetriesAccounting ==
    \A c \in Calls :
        (Done(c) /\ invocations[c] >= 1) =>
            /\ "retries" \in DOMAIN result[c]
            /\ result[c].retries = invocations[c] - 1

\* success after one failed attempt reports 1
C33_Witness ==
    \E c \in Calls :
        /\ Done(c)
        /\ IsSuccess(result[c])
        /\ invocations[c] = 2
        /\ result[c].retries = 1

(***************************************************************************)
(* C34.  Exhausted budget returns the last attempt: a call that made a     *)
(* call of generate and returns a failure returns the failure of its final *)
(* attempt (model error, rejection, decode failure or low confidence, with *)
(* the text and the count of that attempt), never null and never the       *)
(* failure an earlier attempt recorded.                                    *)
(***************************************************************************)
\* r is the failure that the latest answer to call c gives rise to
FailureOfFinalAttempt(c, r) ==
    /\ r # Null
    /\ IsFailure(r)
    /\ r.retries = invocations[c] - 1
    /\ GotError(c) => r.error = << "LLM error: ", lastResponse[c].error >>
    /\ "threw" \in DOMAIN lastResponse[c] =>
          r.error = << "Unexpected error: ", lastResponse[c].threw >>
    /\ GotText(c) => r.rawLLMResponse = lastResponse[c].content
    /\ GotUndecodable(c) => IsDecodeFailure(r)
    /\ GotIntent(c) => GotLowConfidence(c) /\ IsLowConfidenceFailure(r)

C34_LastAttemptReturned ==
    \A c \in Calls :
        (Done(c) /\ invocations[c] >= 1 /\ ~IsSuccess(result[c])) =>
            FailureOfFinalAttempt(c, result[c])

\* a decode failure on the first attempt, low confidence on the last: LowConfidence
C34_Witness ==
    \E c \in Calls :
        /\ Done(c)
        /\ invocations[c] = Budget
        /\ invocations[c] >= 2
        /\ lastResult[c] # Null
        /\ IsDecodeFailure(lastResult[c])
        /\ GotLowConfidence(c)
        /\ IsLowConfidenceFailure(result[c])

(***************************************************************************)
(* C35.  retryOnFailure gates only the low-confidence retries: with        *)
(* retryOnFailure = false a low-confidence intent ends the call at once    *)
(* with the LowConfidence failure, while a text that does not decode ends  *)
(* the call only when 1 + maxRetries calls of generate have been made.     *)
(***************************************************************************)
C35_RetryOnFailureGate ==
    ~options.retryOnFailure =>
        \A c \in Calls :
            /\ GotLowConfidence(c) =>
                  /\ Done(c)
                  /\ IsLowConfidenceFailure(result[c])
            /\ GotUndecodable(c) =>
                  /\ Done(c) => invocations[c] = Budget /\ IsDecodeFailure(result[c])
                  /\ pc[c] = "awaiting" => invocations[c] >= 2 /\ invocations[c] <= Budget

\* without retryOnFailure: a decode failure was retried, and the low
\* confidence of the retry ended the call with budget left
C35_Witness ==
    \E c \in Calls :
        /\ ~options.retryOnFailure
        /\ Done(c)
        /\ GotLowConfidence(c)
        /\ lastResult[c] # Null
        /\ IsDecodeFailure(lastResult[c])
        /\ invocations[c] = 2
        /\ IsLowConfidenceFailure(result[c])

(***************************************************************************)
(* C31.  The navigation rules of the stub are all reachable: a text that   *)
(* asks to navigate to, go to or open settings gets the navigate intent    *)
(* with target "settings" (rule 3), one that asks for the profile gets     *)
(* target "profile" (rule 4), and the dashboard rule (rule 2) is selected  *)
(* only for texts about the dashboard.                                     *)
(***************************************************************************)
\* the text has one of the words navigate, go, open and, after it on the
\* same line, the name of the page
AsksToOpen(text, page) ==
    RegExpTest(<< <<"navigate", page>>, <<"go", page>>, <<"open", page>> >>, text)

Mentions(text, word) == RegExpTest(<< <<word>> >>, text)

\* the text is about this page and about no other page
AsksOnlyFor(text, page) ==
    /\ AsksToOpen(text, page)
    /\ \A other \in {"dashboard", "settings", "profile"} \ {page} : ~Mentions(text, other)

C31_NavigationRules ==
    StubSettled =>
        /\ AsksOnlyFor(gprompt, "settings") =>
              gresult.resolved.content = patternResponses[3][2]
        /\ AsksOnlyFor(gprompt, "profile") =>
              gresult.resolved.content = patternResponses[4][2]
        /\ gresult.resolved.content = patternResponses[2][2] =>
              Mentions(gprompt, "dashboard")

(***************************************************************************)
(* C36.  Meaning of router success: routeIntent returns success:true if    *)
(* and only if a handler, the registered one or the fallback, was invoked  *)
(* and returned without throwing; what the handler returned is the data of *)
(* the response, unchanged and not inspected, so that a handler returning  *)
(* a value that says success:false still gives success:true.               *)
(***************************************************************************)
\* the calls of handlers (not middleware) that returned, in the log of the call
HandlerReturns ==
    { i \in DOMAIN invoked :
        /\ invoked[i].role \in {"executor", "fallback"}
        /\ "outcome" \in DOMAIN invoked[i]
        /\ "returns" \in DOMAIN invoked[i].outcome }

LastRegistered(action) ==
    LET made == { i \in DOMAIN registrations : registrations[i].action = action }
    IN  IF made = {} THEN Get(DefaultExecutors, action)
        ELSE { registrations[CHOOSE i \in made : \A j \in made : j <= i].executor }

\* in this step routeIntent has looked up a handler and calls it
LooksUp ==
    /\ Len(invoked') = Len(invoked) + 1
    /\ invoked'[Len(invoked')].role \in {"executor", "fallback"}

C38_LastRegistrationWins ==
    [][ /\ LooksUp =>
              LET call == invoked'[Len(invoked')]
              IN  call.fn \in LastRegistered(IF call.role = "executor"
                                            THEN call.intent.action
                                            ELSE roptions'.fallbackAction)
        /\ registrations' # registrations => snapshot' = snapshot
        /\ snapshot' # snapshot =>
              /\ snapshot' = actionExecutors
              /\ actionExecutors' = actionExecutors
      ]_vars

\* h1, getExecutors, then h2 while the middleware of a call was awaited: the
\* call invokes h2, and the snapshot still has h1
C38_Witness ==
    /\ rpc = "executor"
    /\ Len(invoked) = 2
    /\ invoked[1].role = "middleware"
    /\ invoked[2].fn = "otherExecutor"
    /\ registrations =
          << [action |-> "dance", executor |-> "customExecutor", during |-> "idle"],
             [action |-> "dance", executor |-> "otherExecutor", during |-> "middleware"] >>
    /\ snapshot # Null
    /\ "dance" \in DOMAIN snapshot
    /\ snapshot.dance = "customExecutor"

(***************************************************************************)
(* C39.  executeChain runs the intents strictly in sequence: the handler   *)
(* of an intent is called only after the handler before it has ended.      *)
(* When no handler throws, the list returned has one entry per intent, in  *)
(* the order of the intents: what the registered handler returned, or      *)
(* {success: false, error} for an intent with no registered handler, which *)
(* does not stop the intents after it.                                     *)
(***************************************************************************)
\* the name has a handler in the registry: one put there at load or by registerExecutor
HasRegisteredHandler(action) == action \in DOMAIN actionExecutors

\* no call of a handler that executeChain made ended with a throw
NoHandlerThrew == ~("rejected" \in DOMAIN cresponse /\ cevents # <<>>
                    /\ "ends" \in DOMAIN cevents[Len(cevents)])

\* the calls and their ends alternate, and the positions go up
InSequence(events) ==
    /\ \A k \in DOMAIN events :
          IF k % 2 = 1 THEN "starts" \in DOMAIN events[k]
          ELSE "ends" \in DOMAIN events[k] /\ events[k].ends = events[k - 1].starts
    /\ \A k \in DOMAIN events, l \in DOMAIN events :
          (k < l /\ "starts" \in DOMAIN events[k] /\ "starts" \in DOMAIN events[l])
              => events[k].starts < events[l].starts

C39_ChainInSequence ==
    /\ InSequence(cevents)
    /\ (cpc = "done" /\ NoHandlerThrew) =>
          /\ "resolved" \in DOMAIN cresponse
          /\ Len(cresponse.resolved) = Len(cintents)
          /\ \A i \in DOMAIN cintents :
                IF HasRegisteredHandler(cintents[i].action)
                THEN [returns |-> cresponse.resolved[i]] \in
                        ExecutorOutcomes(actionExecutors[cintents[i].action],
                                         cintents[i], Undefined)
                ELSE cresponse.resolved[i] = NoExecutorEntry(cintents[i])

(***************************************************************************)
(* C40.  Voice input is plain text to the core: parseVoiceIntent given a   *)
(* string, or a promise that resolves to a string, does from then on what  *)
(* parseIntent does when it is called with that text (same calls of        *)
(* generate, same history change, same result); given a promise that       *)
(* rejects it returns a success:false result, does not reject, makes no    *)
(* call of generate and leaves the history as it is.                       *)
(***************************************************************************)
\* in this step the voice call c gets its text
GetsText(c) == pc[c] \in {"idle", "listening"} /\ callInput'[c] # <<>>

\* in this step the promise given to the voice call c rejects
VoiceFails(c) == pc[c] = "listening" /\ pc'[c] # "listening" /\ callInput'[c] = <<>>

C40_VoiceAsText ==
    [][ \A c \in Calls :
          /\ GetsText(c) => EnterParseIntent(c, callInput'[c], {})
          /\ VoiceFails(c) =>
                /\ pc'[c] = "done"
                /\ IsFailure(result'[c])
                /\ invocations' = invocations
                /\ history' = history
      ]_vars

(***************************************************************************)
(* C37.  The pipeline of IntentJS.process: routeIntent is called if and    *)
(* only if parseIntent succeeded.  When the parse failed no handler runs   *)
(* and process returns success:false with the error of the parse and no    *)
(* intent.  When the parse succeeded, the result's success is the router   *)
(* response's success, its intent is the parsed intent, its execution is   *)
(* the router response, and error is there exactly when routing failed;    *)
(* the item of the successful parse is in the history before routeIntent   *)
(* is called and stays there when routing fails.  The promise of process   *)
(* never rejects.                                                          *)
(***************************************************************************)
\* the call of parseIntent that process made has succeeded
Parsed == pparsed # Null /\ IsSuccess(pparsed)

\* routeIntent has been called by the call of process under way
RoutingAttempted == rpc # "idle"

\* the item of the parsed intent is the last one of the history
ParsedItemKept ==
    /\ history # <<>>
    /\ history[Len(history)] =
          HistoryItem(normalizeInput(callInput[ProcessCall]), pparsed.intent)

C37_ProcessPipeline ==
    /\ ppc \in {"idle", "parsing"} => ~RoutingAttempted /\ invoked = <<>>
    /\ ppc = "routing" => Parsed /\ RoutingAttempted /\ rintent = pparsed.intent
    /\ (ppc \in {"routing", "done"} /\ Parsed /\ options.keepHistory) => ParsedItemKept
    /\ ppc = "done" =>
          /\ "resolved" \in DOMAIN presult
          /\ RoutingAttempted <=> Parsed
          /\ ~Parsed =>
                /\ invoked = <<>>
                /\ IsFailure(pparsed)
                /\ presult.resolved = [success |-> FALSE, error |-> pparsed.error]
          /\ Parsed =>
                /\ "resolved" \in DOMAIN response
                /\ presult.resolved.success = response.resolved.success
                /\ presult.resolved.intent = pparsed.intent
                /\ presult.resolved.execution = response.resolved
                /\ "error" \in DOMAIN presult.resolved <=> ~response.resolved.success
                /\ ~response.resolved.success =>
                      presult.resolved.error = response.resolved.message

\* the parse succeeded with an action nobody handles, the routing failed, and
\* the item is in the history: ProcessRouted
C37_Witness ==
    /\ ppc = "done"
    /\ Parsed
    /\ options.keepHistory
    /\ ~presult.resolved.success
    /\ presult.resolved.error = << "Unknown action: ", "unknown" >>
    /\ ParsedItemKept

====
